---- MODULE Spec2Model ----
(***************************************************************************)
(* Session plane of ultimate-terminal: the hub ("Nexus") with shared       *)
(* sessions kept in SQLite, and the agent ("Worker") that owns one PTY per *)
(* session id.                                                             *)
(*                                                                         *)
(*   hub    src/unnamed/part_005     (Nexus with sharedSessions)           *)
(*   agent  src/worker/src/index.ts  lines 1-270 (persistent-session       *)
(*                                   worker)                               *)
(*                                                                         *)
(* A socket.io link is a pair of FIFO queues (toHub, toAgent).  A client   *)
(* message is sent and handled by the hub in one step; an agent message    *)
(* travels through the queue.  Strings of PTY output are sequences of runs *)
(* [k, len]: the last len characters of the k-th payload an agent emitted. *)
(***************************************************************************)
EXTENDS Integers, Sequences, FiniteSets, TLC

\* ---------------------------------------------------------------- bounds
MaxOutputs == 3        \* payloads the agents emit in one behaviour
MaxSpawns == 3         \* PTYs spawned in one behaviour
MaxInFlight == 2       \* messages queued on one direction of one link
OutLen == 30000        \* characters in one payload of PTY data
BannerLen == 60        \* characters in the respawn banner (about)

\* ------------------------------------------------------ program constants
MAX_OUTPUT_CHARS == 50000
HEALTH_TIMEOUT_MS == 15000
HEALTH_CHECK_INTERVAL_MS == 5000
DefaultCols == 80
DefaultRows == 24
SpawnDefaultCols == 80
SpawnDefaultRows == 30
MaxCommandLen == 4096
INITIAL_RETRY_DELAY == 1000
MAX_RETRY_DELAY == 30000
JITTER_MS == 250

\* ------------------------------------------------------------ input sets
Clients == {"c1", "c2"}
Agents == {"a1", "a2"}
Socks == Clients \cup Agents
Sids == {"s1", "s2"}
NoSid == ""
DisplayNames == {"tty", "dev"}
WorkerNames == {"Alpha", "beta"}
\* values of the WORKER_TOKEN variables: strings as sequences of characters
NoToken == <<>>
\* a password: which word it is and its length; NoPassword is a missing or
\* empty one
NoPassword == [w |-> "", len |-> 0]
MinPasswordLen == 8
Passwords == {[w |-> "a", len |-> 5], [w |-> "b", len |-> 7], [w |-> "c", len |-> 8],
              [w |-> "d", len |-> 12]}
\* crypto.randomBytes(16).toString('hex')
Salts == {"5a", "c3"}
\* req.ip
Ips == {"127.0.0.1", "::ffff:127.0.0.1", "203.0.113.7"}
\* request slots of the HTTP server
Reqs == {1, 2}
Secret == <<"k", "3", "y">>
Tokens == {NoToken, Secret, <<"k", "3", "z">>, <<"k", "3">>, <<"k", "3", "y", " ">>}
ViewSizes == {[cols |-> 60, rows |-> 20], [cols |-> 80, rows |-> 24],
              [cols |-> 100, rows |-> 40]}
CommandLens == {0, 2, 4097}
ExitCodes == {0, 1}

\* name.trim().toLowerCase()
normalizeWorkerKey(name) ==
  CASE name = "Alpha" -> "alpha"
    [] name = "alpha" -> "alpha"
    [] name = "beta" -> "beta"
    [] OTHER -> name

\* ------------------------------------------------------- strings as runs
RECURSIVE Chars(_)
Chars(t) == IF t = <<>> THEN 0 ELSE Head(t).len + Chars(Tail(t))

\* t.slice(-n), n > 0
RECURSIVE SliceLast(_, _)
SliceLast(t, n) ==
  IF Chars(t) <= n THEN t
  ELSE LET excess == Chars(t) - n
       IN IF Head(t).len <= excess
            THEN SliceLast(Tail(t), n)
            ELSE <<[k |-> Head(t).k, len |-> Head(t).len - excess]>> \o Tail(t)

IsSuffix(a, b) == Chars(a) <= Chars(b) /\ (a = <<>> \/ SliceLast(b, Chars(a)) = a)

\* mutant: the stored tail is cut before the new output is added
AppendOutputCutFirst(output, run) == SliceLast(output, MAX_OUTPUT_CHARS) \o <<run>>

\* (session.output + data.output).slice(-MAX_OUTPUT_CHARS)
AppendOutput(output, run) == SliceLast(output \o <<run>>, MAX_OUTPUT_CHARS)

\* ------------------------------------------------------------- map helpers
MapSet(m, key, v) == (key :> v) @@ m
MapDelete(m, key) == [x \in DOMAIN m \ {key} |-> m[x]]
Has(m, key) == key \in DOMAIN m
EmptyMap == <<>>

VARIABLES
  \* hub (part_005)
  sharedSessions,    \* Map id -> SharedSession
  db,                \* rows of the sessions table, id -> row
  sessionSaveTimer,  \* <<>> or <<[session, live]>>: the one pending debounced save
  sessionClients,    \* Map sessionId -> Map clientSocketId -> {cols, rows}
  sessionPtySizes,   \* Map sessionId -> {cols, rows}
  workers,           \* Map socketId -> Worker, as a sequence in insertion order
  role,              \* socket.data.role of each socket, "none" when not connected
  \* agent (worker/src/index.ts)
  connected,         \* socket.connected
  sessionShells,     \* Map sessionId -> PTY
  sessionDimensions, \* Map sessionId -> {cols, rows}
  killedSessions,    \* Set of session ids
  ptys,              \* the PTY objects whose exit callback has not run yet
  respawnTimers,     \* pending setTimeout(..., 500) closures of onExit
  nextPid,           \* PTYs spawned so far
  \* links
  toHub,             \* per agent socket, frames travelling to the hub
  toAgent,           \* per agent socket, frames travelling to the agent
  \* observation
  ev,                \* the event the last step handled
  sent,              \* the frames the hub emitted in the last step
  outLog,            \* per client, the output frames delivered since it last
                     \* connected or joined a session
  nOut,              \* payloads emitted so far
  emitted,           \* k -> [agent, sid] of the k-th payload
  lost,              \* payloads dropped with a link
  snap,              \* per client, the payloads settled before that moment
  preRestart,        \* sharedSessions as the hub held it when it last stopped
  restarted,         \* TRUE in the state a hub start produces
  expectName,        \* id -> display name last given by create or rename
  closedIds,         \* ids closed and not created again
  usedIds,           \* ids some create-session carried
  killProcessed,     \* per agent, the ids whose kill-session it handled
  probe,             \* what this behaviour records: "frames" (ev, sent), "log"
                     \* (outLog, emitted, lost, snap); fixed by the initial state
  \* environment of the processes, fixed by the initial state
  config,            \* WORKER_TOKEN and ALLOW_UNAUTHENTICATED_WORKERS of the hub,
                     \* WORKER_NAME and WORKER_TOKEN of each agent
  \* agent with one shell per client (worker/src/index.ts, second program)
  clientShells,      \* per agent, Map shellKey -> PTY
  \* admin credential of the hub and its HTTP handlers
  authState,         \* the row id = 1 of the auth table (.qodo/auth.json), or NoAuth
  http,              \* per request slot, the request of /api/auth/* being handled
                     \* or the last one answered, with its response
  jwtIssued,         \* the handlers that have answered with a signed token
  \* hub with per-agent API keys (nexus/src/controllers/worker.controller.ts)
  worker_shares,     \* rows of the worker_shares table: <<worker_id, user_id>> -> permission
  apiWorkers,        \* the workers map: worker id -> socket id of its agent
  rooms,             \* per worker id, the client sockets in the room worker:<id>
  apiSockets,        \* per agent socket, socket.data.workerId, "" when it is not open
  \* connection of the agent to the hub (worker/src/index.ts, connect)
  retryDelay,        \* let retryDelay
  socketState,       \* the socket connect() made: "connecting", "connected", "closed"
  reconnectTimer     \* <<>> or <<delay>>: the pending setTimeout of scheduleReconnect

hubVars == <<sharedSessions, db, sessionSaveTimer, sessionClients, sessionPtySizes,
             workers, role>>
agentVars == <<connected, sessionShells, sessionDimensions, killedSessions, ptys,
               respawnTimers, nextPid>>
linkVars == <<toHub, toAgent>>
obsVars == <<ev, sent, outLog, nOut, emitted, lost, snap, preRestart, restarted,
             expectName, closedIds, usedIds, killProcessed, probe>>
\* the state of the other programs of the repository
authVars == <<authState, http, jwtIssued>>
aclVars == <<worker_shares, apiWorkers, rooms, apiSockets>>
backoffVars == <<retryDelay, socketState, reconnectTimer>>
planeVars == <<clientShells, authVars, aclVars, backoffVars>>
vars == <<hubVars, agentVars, linkVars, obsVars, config, planeVars>>

\* ------------------------------------------------------------- environment
\* String.prototype.trim on a sequence of characters
RECURSIVE Trim(_)
Trim(s) ==
  IF s = <<>> THEN s
  ELSE IF Head(s) = " " THEN Trim(Tail(s))
  ELSE IF s[Len(s)] = " " THEN Trim(SubSeq(s, 1, Len(s) - 1))
  ELSE s
\* (process.env.WORKER_TOKEN || '').trim() of the hub
workerSharedToken == Trim(config.envWorkerToken)
\* ALLOW_UNAUTHENTICATED_WORKERS is true, 1 or yes
allowInsecureWorkers == config.allowInsecureWorkers
\* process.env.WORKER_NAME || os.hostname() of each agent
WORKER_NAME == config.WORKER_NAME
\* process.env.WORKER_TOKEN || '' of each agent
WORKER_TOKEN == config.WORKER_TOKEN
Config(shared, insecure, names, tokens) ==
  [envWorkerToken |-> shared, allowInsecureWorkers |-> insecure,
   WORKER_NAME |-> names, WORKER_TOKEN |-> tokens,
   NEXUS_SETUP_TOKEN |-> NoToken, ADMIN_PASSWORD |-> NoPassword]
\* the deployment of the README: one token set in the hub and in each agent
StdConfig ==
  Config(Secret, FALSE, [a \in Agents |-> IF a = "a1" THEN "Alpha" ELSE "beta"],
         [a \in Agents |-> Secret])

\* mutant: safeEqual that compares the lengths only
safeEqualLength(a, b) == Len(a) = Len(b)

\* safeEqual(a, b): equal lengths, then crypto.timingSafeEqual
safeEqual(a, b) == Len(a) = Len(b) /\ \A i \in 1..Len(a) : a[i] = b[i]
\* io.use, type === 'worker': whether the handshake is accepted
WorkerHandshakeOk(workerToken) ==
  IF workerSharedToken # NoToken
    THEN workerToken # NoToken /\ safeEqual(workerToken, workerSharedToken)
    ELSE allowInsecureWorkers

\* the other programs of the repository before they start
IdleShells == clientShells = [a \in Agents |-> EmptyMap]
\* no stored credential, no request handled yet
NoAuth == [passwordHash |-> <<>>, salt |-> ""]
IdleSlot ==
  [op |-> "none", pc |-> "idle", ip |-> "", header |-> NoToken, body |-> NoToken,
   bearer |-> "none", password |-> NoPassword, currentPassword |-> NoPassword,
   state |-> NoAuth, status |-> 0, error |-> ""]
IdleAuth ==
  /\ authState = NoAuth
  /\ http = [r \in Reqs |-> IdleSlot]
  /\ jwtIssued = {}
\* the workers table of the API-key hub: worker id -> owner_id
ApiWorkers == {"w1", "w2"}
Users == {"u1", "u2", "u3"}
owner_id == [w \in ApiWorkers |-> IF w = "w1" THEN "u1" ELSE "u2"]
\* no share, no agent connected, nobody subscribed
IdleAcl ==
  /\ worker_shares = EmptyMap
  /\ apiWorkers = EmptyMap
  /\ rooms = [w \in ApiWorkers |-> {}]
  /\ apiSockets = [a \in Agents |-> ""]
\* let retryDelay = 1000, and connect() has just made the first socket
IdleBackoff ==
  /\ retryDelay = INITIAL_RETRY_DELAY
  /\ socketState = "connecting"
  /\ reconnectTimer = <<>>
IdlePlanes ==
  /\ IdleShells
  /\ IdleAuth
  /\ IdleAcl
  /\ IdleBackoff

\* ------------------------------------------------------------------ frames
\* ev: the handler that ran, the socket it ran for, the session id and the worker
\* id (for close-session, the worker key of the session) of its message,
\* whether it got past its guards and, for a handler of the agent, the PTY it
\* wrote to (0: none)
NoEv == [type |-> "none", sock |-> "", sid |-> "", wid |-> "", ok |-> FALSE, k |-> 0]
Ev(type, sock, sid, wid) ==
  [type |-> type, sock |-> sock, sid |-> sid, wid |-> wid, ok |-> TRUE, k |-> 0]
Dropped(type, sock, sid, wid) ==
  [type |-> type, sock |-> sock, sid |-> sid, wid |-> wid, ok |-> FALSE, k |-> 0]
\* shell.write(data.command) of the agent's execute handler on PTY pid
Wrote(a, sid, pid) == [Ev("agent-execute", a, sid, "") EXCEPT !.k = pid]
Frame(to, type, sid, k) == [to |-> to, type |-> type, sid |-> sid, k |-> k]
ToAgentMsg(type, sid, cols, rows, clientId) ==
  [type |-> type, sid |-> sid, cols |-> cols, rows |-> rows, clientId |-> clientId]
ToHubMsg(type, sid, k, len, code, name) ==
  [type |-> type, sid |-> sid, k |-> k, len |-> len, code |-> code, name |-> name]
NoCode == 0 - 1
RegisterMsg(name) == ToHubMsg("register", NoSid, 0, 0, NoCode, name)
HeartbeatMsg == ToHubMsg("heartbeat", NoSid, 0, 0, NoCode, "")
OutputMsg(sid, k, len, code) == ToHubMsg("output", sid, k, len, code, "")
ShellExitedMsg(sid, code) == ToHubMsg("session-shell-exited", sid, 0, 0, code, "")

ConnectedSocks == {s \in Socks : role[s] # "none"}
\* io.emit(type, ...): every connected socket
IoEmit(type, sid, k) == {Frame(s, type, sid, k) : s \in ConnectedSocks}

\* payloads still travelling on some link
InFlightOf(q) == {q[i].k : i \in 1..Len(q)} \ {0}
InFlight == UNION {InFlightOf(toHub[a]) : a \in Agents}

\* ------------------------------------------------------------- hub helpers
\* Timestamps are kept relative to the current time, in ms (0 is "now"), and
\* saturate one sweep past the health timeout: the hub only ever compares
\* now - lastSeen with HEALTH_TIMEOUT_MS.
OldestSeen == 0 - (HEALTH_TIMEOUT_MS + HEALTH_CHECK_INTERVAL_MS)
Age(lastSeen) == 0 - lastSeen

WorkersHas(ws, id) == \E i \in 1..Len(ws) : ws[i].id = id
WorkersIdx(ws, id) == CHOOSE i \in 1..Len(ws) : ws[i].id = id
WorkersGet(ws, id) == ws[WorkersIdx(ws, id)]
WorkersSet(ws, w) ==
  IF WorkersHas(ws, w.id) THEN [ws EXCEPT ![WorkersIdx(ws, w.id)] = w] ELSE Append(ws, w)
WorkersDelete(ws, id) == SelectSeq(ws, LAMBDA w : w.id # id)

\* Array.from(workers.values()).find(w => normalizeWorkerKey(w.name) === key):
\* the ids of the first match in insertion order, {} when there is none
FindWorkerByKey(ws, key) ==
  LET hits == {i \in 1..Len(ws) : normalizeWorkerKey(ws[i].name) = key}
  IN IF hits = {} THEN {}
     ELSE {ws[CHOOSE i \in hits : \A j \in hits : i <= j].id}

Max(a, b) == IF a >= b THEN a ELSE b
Min(a, b) == IF a <= b THEN a ELSE b
RECURSIVE MaxOf(_, _)
MaxOf(S, floor) ==
  IF S = {} THEN floor
  ELSE LET x == CHOOSE y \in S : TRUE IN Max(x, MaxOf(S \ {x}, floor))

getMaxSessionSize(sc, sessionId) ==
  IF ~Has(sc, sessionId) \/ DOMAIN sc[sessionId] = {}
    THEN [cols |-> DefaultCols, rows |-> DefaultRows]
    ELSE [cols |-> MaxOf({sc[sessionId][c].cols : c \in DOMAIN sc[sessionId]}, DefaultCols),
          rows |-> MaxOf({sc[sessionId][c].rows : c \in DOMAIN sc[sessionId]}, DefaultRows)]

SharedSession(id, workerName, workerKey, displayName, output) ==
  [id |-> id, workerName |-> workerName, workerKey |-> workerKey,
   displayName |-> displayName, output |-> output]

\* mutant: INSERT OR IGNORE, a row that exists is kept as it is
saveSessionToDbIgnore(rows, session) ==
  IF Has(rows, session.id) THEN rows ELSE MapSet(rows, session.id, session)
\* INSERT OR REPLACE INTO sessions
saveSessionToDb(rows, session) == MapSet(rows, session.id, session)
\* DELETE FROM sessions WHERE id = ?
deleteSessionFromDb(rows, sessionId) == MapDelete(rows, sessionId)
\* SELECT * FROM sessions
loadSessionsFromDb(rows) == rows

\* The pending save holds the session object it closed over.  live tells
\* whether that object is still the one sharedSessions holds under its id.
TimerIsLiveFor(timer, id) == timer # <<>> /\ timer[1].live /\ timer[1].session.id = id
\* the map stops holding the object (delete, or set of a new object)
TimerDetach(timer, id) ==
  IF TimerIsLiveFor(timer, id) THEN <<[timer[1] EXCEPT !.live = FALSE]>> ELSE timer
\* a field of the object in the map is assigned
TimerFollow(timer, session) ==
  IF TimerIsLiveFor(timer, session.id)
    THEN <<[session |-> session, live |-> TRUE]>> ELSE timer
\* clearTimeout + setTimeout(() => saveSessionToDb(session), ...)
scheduleSessionSave(timer, session) == <<[session |-> session, live |-> TRUE]>>

QueuesFit(q) == \A a \in Agents : Len(q[a]) <= MaxInFlight

\* what a step that is not a hub start leaves of the observation
Stepped(e, frames) ==
  /\ ev' = IF "frames" \in probe THEN e ELSE NoEv
  /\ sent' = IF "frames" \in probe THEN frames ELSE {}
  /\ restarted' = FALSE
  /\ UNCHANGED <<probe, config>>
Kept(e, frames) == Stepped(e, frames) /\ UNCHANGED backoffVars
\* a step of a socket handler: the HTTP handlers' state stays
Recorded(e, frames) == Kept(e, frames) /\ UNCHANGED <<authVars, aclVars>>
Observe(e, frames) == Recorded(e, frames) /\ UNCHANGED clientShells
Logged(v, old) == IF "log" \in probe THEN v ELSE old
KeepLogs == UNCHANGED <<outLog, nOut, emitted, lost, snap, preRestart>>
KeepGhostSessions == UNCHANGED <<expectName, closedIds, usedIds, killProcessed>>

\* ============================================================ hub: clients
\* io.use, type === 'client' with a token jwt.verify accepts
ClientConnect(c) ==
  /\ role[c] = "none"
  /\ role' = [role EXCEPT ![c] = "client"]
  /\ outLog' = Logged([outLog EXCEPT ![c] = <<>>], outLog)
  /\ snap' = Logged([snap EXCEPT ![c] = (1..nOut) \ InFlight], snap)
  /\ Observe(Ev("connect", c, NoSid, ""), {})
  /\ UNCHANGED <<sharedSessions, db, sessionSaveTimer, sessionClients, sessionPtySizes,
                 workers, agentVars, linkVars, nOut, emitted, lost, preRestart>>
  /\ KeepGhostSessions

\* mutant: a list of the workers that are online only
serializeWorkersOnline == SelectSeq(workers, LAMBDA w : w.status = "online")

\* serializeWorkers(): a copy of every entry of the workers map, in its order
serializeWorkers == workers

\* socket.emit('worker-list', serializeWorkers())
WorkerListFrame(s) ==
  [to |-> s, type |-> "worker-list", sid |-> NoSid, k |-> 0, list |-> serializeWorkers]

\* socket.on('register') with data.type !== 'worker'
ClientRegister(c) ==
  /\ role[c] # "none"
  /\ Observe(Ev("register-client", c, NoSid, ""),
             IF role[c] # "client" THEN {} ELSE {WorkerListFrame(c)})
  /\ UNCHANGED <<hubVars, agentVars, linkVars>>
  /\ KeepLogs /\ KeepGhostSessions

\* socket.on('create-session').  The client's message carries workerKey =
\* normalizeWorkerKey(worker.name) (client/src/App.tsx); the hub stores the key
\* it is given.
CreateSession(c, id, workerName, workerKey, displayName) ==
  /\ role[c] # "none"
  /\ IF role[c] # "client"
       THEN /\ UNCHANGED <<sharedSessions, db, sessionSaveTimer>>
            /\ UNCHANGED <<expectName, closedIds, usedIds>>
            /\ Observe(Dropped("create-session", c, id, ""), {})
       ELSE LET session == SharedSession(id, workerName, workerKey, displayName, <<>>)
            IN /\ sharedSessions' = MapSet(sharedSessions, id, session)
               /\ db' = saveSessionToDb(db, session)
               /\ sessionSaveTimer' = TimerDetach(sessionSaveTimer, id)
               /\ expectName' = MapSet(expectName, id, displayName)
               /\ closedIds' = closedIds \ {id}
               /\ usedIds' = usedIds \cup {id}
               /\ Observe(Ev("create-session", c, id, ""), IoEmit("session-list", NoSid, 0))
  /\ UNCHANGED <<sessionClients, sessionPtySizes, workers, role, agentVars, linkVars,
                 killProcessed>>
  /\ KeepLogs

\* socket.on('close-session')
CloseSession(c, id) ==
  /\ role[c] # "none"
  /\ IF role[c] # "client" \/ ~Has(sharedSessions, id)
       THEN /\ UNCHANGED <<sharedSessions, db, sessionSaveTimer, toAgent>>
            /\ UNCHANGED <<expectName, closedIds>>
            /\ Observe(Dropped("close-session", c, id, ""), {})
       ELSE LET session == sharedSessions[id]
                worker == FindWorkerByKey(workers, session.workerKey)
            IN /\ toAgent' = [a \in Agents |->
                                IF a \in worker
                                  THEN Append(toAgent[a],
                                              ToAgentMsg("kill-session", id, 0, 0, ""))
                                  ELSE toAgent[a]]
               /\ QueuesFit(toAgent')
               /\ sharedSessions' = MapDelete(sharedSessions, id)
               /\ db' = deleteSessionFromDb(db, id)
               /\ sessionSaveTimer' = TimerDetach(sessionSaveTimer, id)
               /\ expectName' = MapDelete(expectName, id)
               /\ closedIds' = closedIds \cup {id}
               /\ Observe(Ev("close-session", c, id, session.workerKey),
                          {Frame(w, "kill-session", id, 0) : w \in worker}
                            \cup IoEmit("session-list", NoSid, 0)
                            \cup IoEmit("session-closed", id, 0))
  /\ UNCHANGED <<sessionClients, sessionPtySizes, workers, role, agentVars, toHub,
                 usedIds, killProcessed>>
  /\ KeepLogs

\* socket.on('rename-session')
RenameSession(c, id, displayName) ==
  /\ role[c] # "none"
  /\ IF role[c] # "client" \/ ~Has(sharedSessions, id)
       THEN /\ UNCHANGED <<sharedSessions, db, sessionSaveTimer>>
            /\ UNCHANGED <<expectName, closedIds>>
            /\ Observe(Dropped("rename-session", c, id, ""), {})
       ELSE LET session == [sharedSessions[id] EXCEPT !.displayName = displayName]
            IN /\ sharedSessions' = MapSet(sharedSessions, id, session)
               /\ db' = saveSessionToDb(db, session)
               /\ sessionSaveTimer' = TimerFollow(sessionSaveTimer, session)
               /\ expectName' = MapSet(expectName, id, displayName)
               /\ UNCHANGED closedIds
               /\ Observe(Ev("rename-session", c, id, ""), IoEmit("session-list", NoSid, 0))
  /\ UNCHANGED <<sessionClients, sessionPtySizes, workers, role, agentVars, linkVars,
                 usedIds, killProcessed>>
  /\ KeepLogs

\* socket.on('get-session-output'): the callback is called with session.output
GetSessionOutput(c, id) ==
  /\ role[c] # "none"
  /\ Observe(Ev("get-session-output", c, id, ""),
             IF role[c] = "client" /\ Has(sharedSessions, id)
               THEN {Frame(c, "session-output", id, 0)} ELSE {})
  /\ UNCHANGED <<hubVars, agentVars, linkVars>>
  /\ KeepLogs /\ KeepGhostSessions

\* socket.on('get-session-list')
GetSessionList(c) ==
  /\ role[c] # "none"
  /\ Observe(Ev("get-session-list", c, NoSid, ""),
             IF role[c] = "client" THEN {Frame(c, "session-list", NoSid, 0)} ELSE {})
  /\ UNCHANGED <<hubVars, agentVars, linkVars>>
  /\ KeepLogs /\ KeepGhostSessions

\* socket.on('execute')
Execute(c, workerId, sessionId, commandLen) ==
  /\ role[c] # "none"
  /\ LET valid == role[c] = "client" /\ ~(commandLen = 0 \/ commandLen > MaxCommandLen)
         forward == valid /\ WorkersHas(workers, workerId)
     IN /\ toAgent' = IF forward
                        THEN [toAgent EXCEPT ![workerId] =
                                Append(@, ToAgentMsg("execute", sessionId, 0, 0, c))]
                        ELSE toAgent
        /\ QueuesFit(toAgent')
        /\ Observe(IF valid THEN Ev("execute", c, sessionId, workerId)
                            ELSE Dropped("execute", c, sessionId, workerId),
                   IF forward THEN {Frame(workerId, "execute", sessionId, 0)} ELSE {})
  /\ UNCHANGED <<hubVars, agentVars, toHub>>
  /\ KeepLogs /\ KeepGhostSessions

\* mutant: resize that forwards the size without recording it in sessionPtySizes
ResizeUnrecorded(c, workerId, sessionId, size) ==
  /\ role[c] # "none"
  /\ IF role[c] # "client" \/ ~WorkersHas(workers, workerId) \/ sessionId = NoSid
       THEN /\ UNCHANGED <<sessionClients, sessionPtySizes, toAgent>>
            /\ Observe(Dropped("resize", c, sessionId, workerId), {})
       ELSE LET clients == IF Has(sessionClients, sessionId)
                             THEN sessionClients[sessionId] ELSE EmptyMap
                sc == MapSet(sessionClients, sessionId, MapSet(clients, c, size))
                maxSize == getMaxSessionSize(sc, sessionId)
                currentPtySize == IF Has(sessionPtySizes, sessionId)
                                    THEN sessionPtySizes[sessionId]
                                    ELSE [cols |-> DefaultCols, rows |-> DefaultRows]
                newCols == Max(maxSize.cols, currentPtySize.cols)
                newRows == Max(maxSize.rows, currentPtySize.rows)
                grow == maxSize.cols > currentPtySize.cols \/ maxSize.rows > currentPtySize.rows
            IN /\ sessionClients' = sc
               /\ sessionPtySizes' = sessionPtySizes
               /\ toAgent' =
                    IF grow THEN [toAgent EXCEPT ![workerId] =
                                    Append(@, ToAgentMsg("resize", sessionId, newCols, newRows, c))]
                    ELSE toAgent
               /\ QueuesFit(toAgent')
               /\ Observe(Ev("resize", c, sessionId, workerId),
                          IF grow THEN {Frame(workerId, "resize", sessionId, 0)} ELSE {})
  /\ UNCHANGED <<sharedSessions, db, sessionSaveTimer, workers, role, agentVars, toHub>>
  /\ KeepLogs /\ KeepGhostSessions

\* socket.on('resize')
Resize(c, workerId, sessionId, size) ==
  /\ role[c] # "none"
  /\ IF role[c] # "client" \/ ~WorkersHas(workers, workerId) \/ sessionId = NoSid
       THEN /\ UNCHANGED <<sessionClients, sessionPtySizes, toAgent>>
            /\ Observe(Dropped("resize", c, sessionId, workerId), {})
       ELSE LET clients == IF Has(sessionClients, sessionId)
                             THEN sessionClients[sessionId] ELSE EmptyMap
                sc == MapSet(sessionClients, sessionId, MapSet(clients, c, size))
                maxSize == getMaxSessionSize(sc, sessionId)
                currentPtySize == IF Has(sessionPtySizes, sessionId)
                                    THEN sessionPtySizes[sessionId]
                                    ELSE [cols |-> DefaultCols, rows |-> DefaultRows]
                newCols == Max(maxSize.cols, currentPtySize.cols)
                newRows == Max(maxSize.rows, currentPtySize.rows)
                grow == maxSize.cols > currentPtySize.cols \/ maxSize.rows > currentPtySize.rows
            IN /\ sessionClients' = sc
               /\ sessionPtySizes' =
                    IF grow THEN MapSet(sessionPtySizes, sessionId,
                                        [cols |-> newCols, rows |-> newRows])
                    ELSE sessionPtySizes
               /\ toAgent' =
                    IF grow THEN [toAgent EXCEPT ![workerId] =
                                    Append(@, ToAgentMsg("resize", sessionId, newCols, newRows, c))]
                    ELSE toAgent
               /\ QueuesFit(toAgent')
               /\ Observe(Ev("resize", c, sessionId, workerId),
                          IF grow THEN {Frame(workerId, "resize", sessionId, 0)} ELSE {})
  /\ UNCHANGED <<sharedSessions, db, sessionSaveTimer, workers, role, agentVars, toHub>>
  /\ KeepLogs /\ KeepGhostSessions

\* mutant: join-session without the role check
JoinSessionAnyRole(c, sessionId, size) ==
  /\ role[c] # "none"
  /\ LET clients == IF Has(sessionClients, sessionId)
                      THEN sessionClients[sessionId] ELSE EmptyMap
     IN sessionClients' = MapSet(sessionClients, sessionId, MapSet(clients, c, size))
  /\ Observe(Ev("join-session", c, sessionId, ""), {})
  /\ UNCHANGED <<sharedSessions, db, sessionSaveTimer, sessionPtySizes, workers, role,
                 agentVars, linkVars>>
  /\ KeepLogs /\ KeepGhostSessions

\* socket.on('join-session')
JoinSession(c, sessionId, size) ==
  /\ role[c] # "none"
  /\ IF role[c] # "client"
       THEN UNCHANGED sessionClients
       ELSE LET clients == IF Has(sessionClients, sessionId)
                             THEN sessionClients[sessionId] ELSE EmptyMap
            IN sessionClients' = MapSet(sessionClients, sessionId, MapSet(clients, c, size))
  /\ outLog' = IF role[c] = "client" THEN Logged([outLog EXCEPT ![c] = <<>>], outLog)
                ELSE outLog
  /\ snap' = IF role[c] = "client"
                THEN Logged([snap EXCEPT ![c] = (1..nOut) \ InFlight], snap) ELSE snap
  /\ Observe(Ev("join-session", c, sessionId, ""), {})
  /\ UNCHANGED <<sharedSessions, db, sessionSaveTimer, sessionPtySizes, workers, role,
                 agentVars, linkVars, nOut, emitted, lost, preRestart>>
  /\ KeepGhostSessions

\* socket.on('leave-session')
LeaveSession(c, sessionId) ==
  /\ role[c] # "none"
  /\ IF role[c] # "client" \/ ~Has(sessionClients, sessionId)
       THEN UNCHANGED sessionClients
       ELSE sessionClients' = [sessionClients EXCEPT ![sessionId] = MapDelete(@, c)]
  /\ Observe(Ev("leave-session", c, sessionId, ""), {})
  /\ UNCHANGED <<sharedSessions, db, sessionSaveTimer, sessionPtySizes, workers, role,
                 agentVars, linkVars>>
  /\ KeepLogs /\ KeepGhostSessions

\* socket.on('disconnect'), the branch of a client socket.  Each session the
\* client was tracked in is handled on its own; the order in which the resize
\* frames of different sessions are emitted is the order of SidOrder.
SidOrder == <<"s1", "s2">>
ShrinkWorker(c, sessionId) ==
  IF ~(Has(sessionClients, sessionId) /\ Has(sessionClients[sessionId], c)) THEN {}
  ELSE LET sc == [sessionClients EXCEPT ![sessionId] = MapDelete(@, c)]
           newMax == getMaxSessionSize(sc, sessionId)
       IN IF /\ DOMAIN sc[sessionId] # {}
             /\ Has(sessionPtySizes, sessionId)
             /\ (\/ newMax.cols < sessionPtySizes[sessionId].cols
                 \/ newMax.rows < sessionPtySizes[sessionId].rows)
             /\ Has(sharedSessions, sessionId)
            THEN FindWorkerByKey(workers, sharedSessions[sessionId].workerKey)
            ELSE {}
ShrinkSize(c, sessionId) ==
  getMaxSessionSize([sessionClients EXCEPT ![sessionId] = MapDelete(@, c)], sessionId)
RECURSIVE ShrinkMsgs(_, _, _)
ShrinkMsgs(c, a, order) ==
  IF order = <<>> THEN <<>>
  ELSE (IF a \in ShrinkWorker(c, Head(order))
          THEN <<ToAgentMsg("resize", Head(order), ShrinkSize(c, Head(order)).cols,
                            ShrinkSize(c, Head(order)).rows, c)>>
          ELSE <<>>) \o ShrinkMsgs(c, a, Tail(order))

ClientDisconnect(c) ==
  /\ role[c] = "client"
  /\ role' = [role EXCEPT ![c] = "none"]
  /\ sessionClients' = [sid \in DOMAIN sessionClients |->
                          IF Has(sessionClients[sid], c)
                            THEN MapDelete(sessionClients[sid], c)
                            ELSE sessionClients[sid]]
  /\ sessionPtySizes' = [sid \in DOMAIN sessionPtySizes |->
                           IF ShrinkWorker(c, sid) # {}
                             THEN ShrinkSize(c, sid) ELSE sessionPtySizes[sid]]
  /\ toAgent' = [a \in Agents |-> toAgent[a] \o ShrinkMsgs(c, a, SidOrder)]
  /\ QueuesFit(toAgent')
  /\ Observe(Ev("disconnect", c, NoSid, ""),
             UNION {{Frame(a, "resize", sid, 0) : a \in ShrinkWorker(c, sid)} : sid \in Sids}
             \cup {Frame(workers[i].id, "client-disconnect", NoSid, 0) : i \in 1..Len(workers)})
  /\ UNCHANGED <<sharedSessions, db, sessionSaveTimer, workers, agentVars, toHub>>
  /\ KeepLogs /\ KeepGhostSessions

\* ============================================================= hub: agents
HubHead(a, type) == role[a] # "none" /\ toHub[a] # <<>> /\ Head(toHub[a]).type = type

\* socket.on('register') with data.type === 'worker', run for socket s
OnRegisterWorker(s, data) ==
  IF role[s] # "worker"
    THEN /\ UNCHANGED workers
         /\ Observe(Dropped("register", s, NoSid, ""), {})
    ELSE /\ workers' = WorkersSet(workers, [id |-> s, socketId |-> s, name |-> data.name,
                                            lastSeen |-> 0, status |-> "online"])
         /\ Observe(Ev("register", s, NoSid, ""), IoEmit("worker-list", NoSid, 0))

RegisterWorker(a) ==
  /\ HubHead(a, "register")
  /\ toHub' = [toHub EXCEPT ![a] = Tail(@)]
  /\ OnRegisterWorker(a, Head(toHub[a]))
  /\ UNCHANGED <<sharedSessions, db, sessionSaveTimer, sessionClients, sessionPtySizes,
                 role, agentVars, toAgent>>
  /\ KeepLogs /\ KeepGhostSessions

\* socket.on('heartbeat'), run for socket s
OnHeartbeat(s) ==
  /\ workers' = IF role[s] = "worker" /\ WorkersHas(workers, s)
                  THEN WorkersSet(workers, [WorkersGet(workers, s) EXCEPT
                                              !.lastSeen = 0, !.status = "online"])
                  ELSE workers
  /\ Observe(Ev("heartbeat", s, NoSid, ""), {})

Heartbeat(a) ==
  /\ HubHead(a, "heartbeat")
  /\ toHub' = [toHub EXCEPT ![a] = Tail(@)]
  /\ OnHeartbeat(a)
  /\ UNCHANGED <<sharedSessions, db, sessionSaveTimer, sessionClients, sessionPtySizes,
                 role, agentVars, toAgent>>
  /\ KeepLogs /\ KeepGhostSessions

\* mutant: io.to(sessionId).emit('output', ...) while no handler calls
\* socket.join, the room has no member
OutputRecipientsRoom(sessionId) == {}
\* io.emit('output', ...): the sockets the output frame goes to
OutputRecipients(sessionId) == ConnectedSocks

\* socket.on('output'), run for socket s
OnOutput(s, data) ==
  LET stored == role[s] = "worker" /\ data.sid # NoSid
                  /\ Has(sharedSessions, data.sid)
      session == [sharedSessions[data.sid] EXCEPT
                    !.output = AppendOutput(@, [k |-> data.k, len |-> data.len])]
      to == IF role[s] = "worker" THEN OutputRecipients(data.sid) ELSE {}
  IN /\ sharedSessions' = IF stored THEN MapSet(sharedSessions, data.sid, session)
                          ELSE sharedSessions
     /\ sessionSaveTimer' = IF stored THEN scheduleSessionSave(sessionSaveTimer, session)
                            ELSE sessionSaveTimer
     /\ outLog' = Logged([c \in Clients |->
                              IF c \in to
                                THEN Append(outLog[c], [from |-> s, sid |-> data.sid,
                                                        k |-> data.k])
                                ELSE outLog[c]], outLog)
     /\ Observe(Ev("output", s, data.sid, ""),
                {Frame(x, "output", data.sid, data.k) : x \in to})

Output(a) ==
  /\ HubHead(a, "output")
  /\ toHub' = [toHub EXCEPT ![a] = Tail(@)]
  /\ OnOutput(a, Head(toHub[a]))
  /\ UNCHANGED <<db, sessionClients, sessionPtySizes, workers, role, agentVars, toAgent,
                 nOut, emitted, lost, snap, preRestart>>
  /\ KeepGhostSessions

\* A client socket emits a frame of the worker protocol; the hub runs the same
\* handlers for it.
SendRegister(c, name) ==
  /\ role[c] # "none"
  /\ OnRegisterWorker(c, RegisterMsg(name))
  /\ UNCHANGED <<sharedSessions, db, sessionSaveTimer, sessionClients, sessionPtySizes,
                 role, agentVars, linkVars>>
  /\ KeepLogs /\ KeepGhostSessions
SendHeartbeat(c) ==
  /\ role[c] # "none"
  /\ OnHeartbeat(c)
  /\ UNCHANGED <<sharedSessions, db, sessionSaveTimer, sessionClients, sessionPtySizes,
                 role, agentVars, linkVars>>
  /\ KeepLogs /\ KeepGhostSessions
SendOutput(c, sessionId) ==
  /\ role[c] # "none"
  /\ OnOutput(c, OutputMsg(sessionId, 0, OutLen, NoCode))
  /\ UNCHANGED <<db, sessionClients, sessionPtySizes, workers, role, agentVars, linkVars,
                 nOut, emitted, lost, snap, preRestart>>
  /\ KeepGhostSessions

\* 'session-shell-exited' has no listener on the hub: the frame is dropped
SessionShellExited(a) ==
  /\ HubHead(a, "session-shell-exited")
  /\ toHub' = [toHub EXCEPT ![a] = Tail(@)]
  /\ Observe(Ev("session-shell-exited", a, Head(toHub[a]).sid, ""), {})
  /\ UNCHANGED <<hubVars, agentVars, toAgent>>
  /\ KeepLogs /\ KeepGhostSessions

\* setInterval(..., HEALTH_CHECK_INTERVAL_MS): one interval passes and the
\* sweep runs
HealthSweep ==
  LET aged == [i \in 1..Len(workers) |->
                 [workers[i] EXCEPT !.lastSeen =
                    Max(OldestSeen, @ - HEALTH_CHECK_INTERVAL_MS)]]
      swept == [i \in 1..Len(workers) |->
                  [aged[i] EXCEPT !.status =
                     IF Age(aged[i].lastSeen) > HEALTH_TIMEOUT_MS
                       THEN "offline" ELSE "online"]]
      changed == \E i \in 1..Len(workers) : swept[i].status # workers[i].status
  IN /\ workers # <<>>
     /\ workers' = swept
     /\ Observe(Ev("sweep", "", NoSid, ""),
                IF changed THEN IoEmit("worker-list", NoSid, 0) ELSE {})
     /\ UNCHANGED <<sharedSessions, db, sessionSaveTimer, sessionClients, sessionPtySizes,
                    role, agentVars, linkVars>>
     /\ KeepLogs /\ KeepGhostSessions

\* the callback scheduleSessionSave armed
SessionSaveFire ==
  /\ sessionSaveTimer # <<>>
  /\ db' = saveSessionToDb(db, sessionSaveTimer[1].session)
  /\ sessionSaveTimer' = <<>>
  /\ Observe(Ev("save", "", sessionSaveTimer[1].session.id, ""), {})
  /\ UNCHANGED <<sharedSessions, sessionClients, sessionPtySizes, workers, role,
                 agentVars, linkVars>>
  /\ KeepLogs /\ KeepGhostSessions

\* ================================================================== agent
AUTO_RESTART_SHELL == TRUE

AgentHead(a, type) == connected[a] /\ toAgent[a] # <<>> /\ Head(toAgent[a]).type = type
PtyOf(a, sessionId) == sessionShells[a][sessionId]
Running(a, sessionId) ==
  {p \in DOMAIN ptys : ptys[p].agent = a /\ ptys[p].sid = sessionId /\ ptys[p].st = "running"}

\* createShellForSession(sessionId, cols, rows): the new PTY map
createShellForSession(a, sessionId, cols, rows) ==
  MapSet(ptys, nextPid + 1,
         [agent |-> a, sid |-> sessionId, cols |-> cols, rows |-> rows, st |-> "running"])

\* io(NEXUS_URL, {auth: {type: 'worker', workerToken: WORKER_TOKEN}}): the hub's
\* io.use accepts the handshake and socket.on('connect') of the agent runs, or
\* it refuses it and socket.on('connect_error') schedules the next attempt
AgentConnect(a) ==
  /\ ~connected[a] /\ role[a] = "none"
  /\ IF WorkerHandshakeOk(WORKER_TOKEN[a])
       THEN /\ connected' = [connected EXCEPT ![a] = TRUE]
            /\ role' = [role EXCEPT ![a] = "worker"]
            /\ toHub' = [toHub EXCEPT ![a] = <<RegisterMsg(WORKER_NAME[a])>>]
            /\ toAgent' = [toAgent EXCEPT ![a] = <<>>]
            /\ Observe(Ev("connect", a, NoSid, ""), {})
       ELSE /\ UNCHANGED <<connected, role, toHub, toAgent>>
            /\ Observe(Dropped("connect", a, NoSid, ""), {})
  /\ UNCHANGED <<sharedSessions, db, sessionSaveTimer, sessionClients, sessionPtySizes,
                 workers, sessionShells, sessionDimensions, killedSessions, ptys,
                 respawnTimers, nextPid>>
  /\ KeepLogs /\ KeepGhostSessions

\* the heartbeat interval set in socket.on('connect')
AgentHeartbeat(a) ==
  /\ connected[a]
  /\ toHub' = [toHub EXCEPT ![a] = Append(@, HeartbeatMsg)]
  /\ QueuesFit(toHub')
  /\ Observe(NoEv, {})
  /\ UNCHANGED <<hubVars, agentVars, toAgent>>
  /\ KeepLogs /\ KeepGhostSessions

\* socket.on('execute') of the worker
AgentExecute(a) ==
  /\ AgentHead(a, "execute")
  /\ LET sessionId == Head(toAgent[a]).sid
         spawn == sessionId # NoSid /\ ~Has(sessionShells[a], sessionId)
     IN /\ toAgent' = [toAgent EXCEPT ![a] = Tail(@)]
        /\ IF spawn
             THEN /\ nextPid < MaxSpawns
                  /\ ptys' = createShellForSession(a, sessionId, SpawnDefaultCols,
                                                   SpawnDefaultRows)
                  /\ sessionDimensions' =
                       [sessionDimensions EXCEPT ![a] =
                          MapSet(@, sessionId, [cols |-> SpawnDefaultCols,
                                                rows |-> SpawnDefaultRows])]
                  /\ sessionShells' = [sessionShells EXCEPT ![a] =
                                         MapSet(@, sessionId, nextPid + 1)]
                  /\ nextPid' = nextPid + 1
             ELSE UNCHANGED <<ptys, sessionDimensions, sessionShells, nextPid>>
        /\ Observe(IF "agent" \in probe /\ sessionId # NoSid
                     THEN Wrote(a, sessionId, IF spawn THEN nextPid + 1
                                                       ELSE sessionShells[a][sessionId])
                     ELSE NoEv, {})
  /\ UNCHANGED <<hubVars, connected, killedSessions, respawnTimers, toHub>>
  /\ KeepLogs /\ KeepGhostSessions

\* socket.on('resize') of the worker
AgentResize(a) ==
  /\ AgentHead(a, "resize")
  /\ LET data == Head(toAgent[a])
         sessionId == data.sid
     IN /\ toAgent' = [toAgent EXCEPT ![a] = Tail(@)]
        /\ IF sessionId = NoSid
             THEN UNCHANGED <<ptys, sessionDimensions, sessionShells, nextPid>>
             ELSE IF ~Has(sessionShells[a], sessionId)
               THEN /\ nextPid < MaxSpawns
                    /\ ptys' = createShellForSession(a, sessionId, data.cols, data.rows)
                    /\ sessionDimensions' =
                         [sessionDimensions EXCEPT ![a] =
                            MapSet(@, sessionId, [cols |-> data.cols, rows |-> data.rows])]
                    /\ sessionShells' = [sessionShells EXCEPT ![a] =
                                           MapSet(@, sessionId, nextPid + 1)]
                    /\ nextPid' = nextPid + 1
               ELSE /\ ptys' = [ptys EXCEPT ![PtyOf(a, sessionId)] =
                                  [@ EXCEPT !.cols = data.cols, !.rows = data.rows]]
                    /\ UNCHANGED <<sessionDimensions, sessionShells, nextPid>>
  /\ Observe(NoEv, {})
  /\ UNCHANGED <<hubVars, connected, killedSessions, respawnTimers, toHub>>
  /\ KeepLogs /\ KeepGhostSessions

\* socket.on('kill-session') of the worker
KillSession(a) ==
  /\ AgentHead(a, "kill-session")
  /\ LET sessionId == Head(toAgent[a]).sid
     IN /\ toAgent' = [toAgent EXCEPT ![a] = Tail(@)]
        /\ IF sessionId = NoSid
             THEN UNCHANGED <<killedSessions, sessionDimensions, ptys, sessionShells,
                              killProcessed>>
             ELSE /\ killedSessions' = [killedSessions EXCEPT ![a] = @ \cup {sessionId}]
                  /\ killProcessed' = [killProcessed EXCEPT ![a] = @ \cup {sessionId}]
                  /\ sessionDimensions' = [sessionDimensions EXCEPT ![a] =
                                             MapDelete(@, sessionId)]
                  /\ IF Has(sessionShells[a], sessionId)
                       THEN /\ ptys' = [ptys EXCEPT ![PtyOf(a, sessionId)].st = "killed"]
                            /\ sessionShells' = [sessionShells EXCEPT ![a] =
                                                   MapDelete(@, sessionId)]
                       ELSE UNCHANGED <<ptys, sessionShells>>
  /\ Observe(NoEv, {})
  /\ UNCHANGED <<hubVars, connected, respawnTimers, nextPid, toHub>>
  /\ KeepLogs /\ UNCHANGED <<expectName, closedIds, usedIds>>

\* socket.on('client-disconnect') of the worker only logs; the hub's frame is
\* recorded in sent and not queued

\* shell.onData
PtyData(p) ==
  /\ p \in DOMAIN ptys
  /\ connected[ptys[p].agent]
  /\ nOut < MaxOutputs
  /\ toHub' = [toHub EXCEPT ![ptys[p].agent] =
                 Append(@, OutputMsg(ptys[p].sid, nOut + 1, OutLen, NoCode))]
  /\ QueuesFit(toHub')
  /\ nOut' = nOut + 1
  /\ emitted' = Logged(Append(emitted, [agent |-> ptys[p].agent, sid |-> ptys[p].sid]),
                        emitted)
  /\ Observe(NoEv, {})
  /\ UNCHANGED <<hubVars, agentVars, toAgent, outLog, lost, snap, preRestart>>
  /\ KeepGhostSessions

\* the shell process ends and shell.onExit runs
ShellExit(p, exitCode) ==
  /\ p \in DOMAIN ptys
  /\ LET a == ptys[p].agent
         sessionId == ptys[p].sid
         killed == sessionId \in killedSessions[a]
         respawn == ~killed /\ AUTO_RESTART_SHELL /\ connected[a]
         dims == IF Has(sessionDimensions[a], sessionId)
                   THEN sessionDimensions[a][sessionId]
                   ELSE [cols |-> SpawnDefaultCols, rows |-> SpawnDefaultRows]
     IN /\ ptys' = MapDelete(ptys, p)
        /\ sessionShells' = [sessionShells EXCEPT ![a] = MapDelete(@, sessionId)]
        /\ killedSessions' = [killedSessions EXCEPT ![a] = @ \ {sessionId}]
        /\ sessionDimensions' = IF respawn THEN sessionDimensions
                                ELSE [sessionDimensions EXCEPT ![a] = MapDelete(@, sessionId)]
        /\ respawnTimers' =
             IF respawn THEN respawnTimers \cup
                               {[agent |-> a, sid |-> sessionId, cols |-> dims.cols,
                                 rows |-> dims.rows, code |-> exitCode, pid |-> p]}
             ELSE respawnTimers
        /\ toHub' = IF ~respawn /\ connected[a]
                      THEN [toHub EXCEPT ![a] = Append(@, ShellExitedMsg(sessionId, exitCode))]
                      ELSE toHub
        /\ QueuesFit(toHub')
  /\ Observe(NoEv, {})
  /\ UNCHANGED <<hubVars, connected, nextPid, toAgent>>
  /\ KeepLogs /\ KeepGhostSessions

\* the setTimeout(..., 500) callback of onExit
Respawn(t) ==
  /\ t \in respawnTimers
  /\ respawnTimers' = respawnTimers \ {t}
  /\ IF t.sid \notin killedSessions[t.agent] /\ connected[t.agent]
       THEN /\ nextPid < MaxSpawns /\ nOut < MaxOutputs
            /\ ptys' = createShellForSession(t.agent, t.sid, t.cols, t.rows)
            /\ sessionDimensions' = [sessionDimensions EXCEPT ![t.agent] =
                                       MapSet(@, t.sid, [cols |-> t.cols, rows |-> t.rows])]
            /\ sessionShells' = [sessionShells EXCEPT ![t.agent] =
                                   MapSet(@, t.sid, nextPid + 1)]
            /\ nextPid' = nextPid + 1
            /\ toHub' = [toHub EXCEPT ![t.agent] =
                           Append(@, OutputMsg(t.sid, nOut + 1, BannerLen, t.code))]
            /\ QueuesFit(toHub')
            /\ nOut' = nOut + 1
            /\ emitted' = Logged(Append(emitted, [agent |-> t.agent, sid |-> t.sid]),
                                  emitted)
       ELSE UNCHANGED <<ptys, sessionDimensions, sessionShells, nextPid, toHub, nOut, emitted>>
  /\ Observe(NoEv, {})
  /\ UNCHANGED <<hubVars, connected, killedSessions, toAgent, outLog, lost, snap, preRestart>>
  /\ KeepGhostSessions

\* mutant: a disconnect handler of the agent that forgets its shells
WorkerDisconnectClears(a) ==
  /\ connected[a] /\ role[a] # "none"
  /\ role' = [role EXCEPT ![a] = "none"]
  /\ connected' = [connected EXCEPT ![a] = FALSE]
  /\ workers' = WorkersDelete(workers, a)
  /\ toHub' = [toHub EXCEPT ![a] = <<>>]
  /\ toAgent' = [toAgent EXCEPT ![a] = <<>>]
  /\ lost' = Logged(lost \cup InFlightOf(toHub[a]), lost)
  /\ Observe(Ev("disconnect", a, NoSid, ""),
             IF WorkersHas(workers, a)
               THEN {Frame(s, "worker-list", NoSid, 0) : s \in ConnectedSocks \ {a}}
               ELSE {})
  /\ sessionShells' = [sessionShells EXCEPT ![a] = EmptyMap]
  /\ UNCHANGED <<sharedSessions, db, sessionSaveTimer, sessionClients, sessionPtySizes,
                 sessionDimensions, killedSessions, ptys, respawnTimers,
                 nextPid, outLog, nOut, emitted, snap, preRestart>>
  /\ KeepGhostSessions

\* ================================================================== links
\* The link of agent a goes down.  Hub side, socket.on('disconnect') of a
\* worker socket; agent side, socket.on('disconnect').  Frames still
\* travelling are dropped with the link.
WorkerDisconnect(a) ==
  /\ connected[a] /\ role[a] # "none"
  /\ role' = [role EXCEPT ![a] = "none"]
  /\ connected' = [connected EXCEPT ![a] = FALSE]
  /\ workers' = WorkersDelete(workers, a)
  /\ toHub' = [toHub EXCEPT ![a] = <<>>]
  /\ toAgent' = [toAgent EXCEPT ![a] = <<>>]
  /\ lost' = Logged(lost \cup InFlightOf(toHub[a]), lost)
  /\ Observe(Ev("disconnect", a, NoSid, ""),
             IF WorkersHas(workers, a)
               THEN {Frame(s, "worker-list", NoSid, 0) : s \in ConnectedSocks \ {a}}
               ELSE {})
  /\ UNCHANGED <<sharedSessions, db, sessionSaveTimer, sessionClients, sessionPtySizes,
                 sessionShells, sessionDimensions, killedSessions, ptys, respawnTimers,
                 nextPid, outLog, nOut, emitted, snap, preRestart>>
  /\ KeepGhostSessions

\* The hub process stops and starts again: every socket closes, the module-level
\* maps are new, the pending save is gone with the process, and
\* sharedSessions = loadSessionsFromDb().
HubRestart ==
  /\ preRestart' = sharedSessions
  /\ restarted' = TRUE
  /\ sharedSessions' = loadSessionsFromDb(db)
  /\ sessionSaveTimer' = <<>>
  /\ sessionClients' = EmptyMap
  /\ sessionPtySizes' = EmptyMap
  /\ workers' = <<>>
  /\ role' = [s \in Socks |-> "none"]
  /\ connected' = [a \in Agents |-> FALSE]
  /\ toHub' = [a \in Agents |-> <<>>]
  /\ toAgent' = [a \in Agents |-> <<>>]
  /\ lost' = Logged(lost \cup InFlight, lost)
  /\ ev' = IF "frames" \in probe THEN Ev("restart", "", NoSid, "") ELSE NoEv
  /\ sent' = {}
  /\ UNCHANGED <<probe, config, planeVars>>
  /\ UNCHANGED <<db, sessionShells, sessionDimensions, killedSessions, ptys,
                 respawnTimers, nextPid, outLog, nOut, emitted, snap>>
  /\ KeepGhostSessions

\* ======================================= hub and agent with one shell per client
\* nexus/src/index.ts and the second program of worker/src/index.ts: no
\* sessions; the agent keeps one PTY per client socket and names the client in
\* every output frame.
DEFAULT_SESSION_ID == "default"
\* `${clientId}:${normalizeSessionId(sessionId) ?? DEFAULT_SESSION_ID}`
buildShellKey(clientId, sessionId) ==
  <<clientId, IF sessionId = NoSid THEN DEFAULT_SESSION_ID ELSE sessionId>>
ClientOutputMsg(clientId, sid, k, len) ==
  [type |-> "output", sid |-> sid, k |-> k, len |-> len, code |-> NoCode, name |-> "",
   clientId |-> clientId]
\* createShellForClient(shellKey, clientId, sessionId, cols, rows): the new PTY
\* map; writers are the clients whose commands were written to the PTY
createShellForClient(a, shellKey, clientId, sessionId, cols, rows, writers) ==
  MapSet(ptys, nextPid + 1,
         [agent |-> a, sid |-> sessionId, cols |-> cols, rows |-> rows, st |-> "running",
          client |-> clientId, key |-> shellKey, writers |-> writers])

\* socket.on('execute') of nexus/src/index.ts
NexusExecute(c, workerId, commandLen) ==
  /\ role[c] # "none"
  /\ LET valid == role[c] = "client" /\ ~(commandLen = 0 \/ commandLen > MaxCommandLen)
         forward == valid /\ WorkersHas(workers, workerId)
     IN /\ toAgent' = IF forward
                        THEN [toAgent EXCEPT ![workerId] =
                                Append(@, ToAgentMsg("execute", NoSid, 0, 0, c))]
                        ELSE toAgent
        /\ QueuesFit(toAgent')
        /\ Observe(IF valid THEN Ev("execute", c, NoSid, workerId)
                            ELSE Dropped("execute", c, NoSid, workerId),
                   IF forward THEN {Frame(workerId, "execute", NoSid, 0)} ELSE {})
  /\ UNCHANGED <<hubVars, agentVars, toHub>>
  /\ KeepLogs /\ KeepGhostSessions

\* socket.on('resize') of nexus/src/index.ts
NexusResize(c, workerId, size) ==
  /\ role[c] # "none"
  /\ LET forward == role[c] = "client" /\ WorkersHas(workers, workerId)
     IN /\ toAgent' = IF forward
                        THEN [toAgent EXCEPT ![workerId] =
                                Append(@, ToAgentMsg("resize", NoSid, size.cols, size.rows, c))]
                        ELSE toAgent
        /\ QueuesFit(toAgent')
        /\ Observe(IF forward THEN Ev("resize", c, NoSid, workerId)
                              ELSE Dropped("resize", c, NoSid, workerId),
                   IF forward THEN {Frame(workerId, "resize", NoSid, 0)} ELSE {})
  /\ UNCHANGED <<hubVars, agentVars, toHub>>
  /\ KeepLogs /\ KeepGhostSessions

\* mutant: io.emit whatever the frame names
NexusOutputRecipientsAll(clientId) == ConnectedSocks

\* io.to(data.clientId) when the frame names a client, io.emit otherwise
NexusOutputRecipients(clientId) ==
  IF clientId # "" THEN {clientId} \cap ConnectedSocks ELSE ConnectedSocks

\* socket.on('output') of nexus/src/index.ts
NexusOutput(a) ==
  /\ HubHead(a, "output")
  /\ LET data == Head(toHub[a])
         clientId == IF "clientId" \in DOMAIN data THEN data.clientId ELSE ""
         to == IF role[a] = "worker" THEN NexusOutputRecipients(clientId) ELSE {}
     IN /\ outLog' = Logged([c \in Clients |->
                               IF c \in to
                                 THEN Append(outLog[c], [from |-> a, sid |-> data.sid,
                                                         k |-> data.k])
                                 ELSE outLog[c]], outLog)
        /\ Observe(Ev("output", a, data.sid, ""),
                   {Frame(x, "output", data.sid, data.k) : x \in to})
  /\ toHub' = [toHub EXCEPT ![a] = Tail(@)]
  /\ UNCHANGED <<hubVars, agentVars, toAgent, nOut, emitted, lost, snap, preRestart>>
  /\ KeepGhostSessions

\* socket.on('disconnect') of nexus/src/index.ts, the branch of a client socket
NexusClientDisconnect(c) ==
  /\ role[c] = "client"
  /\ role' = [role EXCEPT ![c] = "none"]
  /\ toAgent' = [a \in Agents |->
                   IF WorkersHas(workers, a)
                     THEN Append(toAgent[a], ToAgentMsg("client-disconnect", NoSid, 0, 0, c))
                     ELSE toAgent[a]]
  /\ QueuesFit(toAgent')
  /\ Observe(Ev("disconnect", c, NoSid, ""),
             {Frame(workers[i].id, "client-disconnect", NoSid, 0) : i \in 1..Len(workers)})
  /\ UNCHANGED <<sharedSessions, db, sessionSaveTimer, sessionClients, sessionPtySizes,
                 workers, agentVars, toHub>>
  /\ KeepLogs /\ KeepGhostSessions

\* socket.on('execute') of the agent with one shell per client
ClientShellExecute(a) ==
  /\ AgentHead(a, "execute")
  /\ LET msg == Head(toAgent[a])
         shellKey == buildShellKey(msg.clientId, msg.sid)
         spawn == ~Has(clientShells[a], shellKey)
         pid == IF spawn THEN nextPid + 1 ELSE clientShells[a][shellKey]
     IN /\ toAgent' = [toAgent EXCEPT ![a] = Tail(@)]
        /\ IF spawn
             THEN /\ nextPid < MaxSpawns
                  /\ ptys' = createShellForClient(a, shellKey, msg.clientId, msg.sid,
                                                  SpawnDefaultCols, SpawnDefaultRows,
                                                  {msg.clientId})
                  /\ clientShells' = [clientShells EXCEPT ![a] = MapSet(@, shellKey, pid)]
                  /\ nextPid' = nextPid + 1
             ELSE /\ ptys' = [ptys EXCEPT ![pid].writers = @ \cup {msg.clientId}]
                  /\ UNCHANGED <<clientShells, nextPid>>
        /\ Recorded(IF "agent" \in probe
                      THEN [Wrote(a, msg.sid, pid) EXCEPT !.wid = msg.clientId]
                      ELSE NoEv, {})
  /\ UNCHANGED <<hubVars, connected, sessionShells, sessionDimensions, killedSessions,
                 respawnTimers, toHub>>
  /\ KeepLogs /\ KeepGhostSessions

\* socket.on('resize') of the agent with one shell per client
ClientShellResize(a) ==
  /\ AgentHead(a, "resize")
  /\ LET msg == Head(toAgent[a])
         shellKey == buildShellKey(msg.clientId, msg.sid)
         spawn == ~Has(clientShells[a], shellKey)
     IN /\ toAgent' = [toAgent EXCEPT ![a] = Tail(@)]
        /\ IF spawn
             THEN /\ nextPid < MaxSpawns
                  /\ ptys' = createShellForClient(a, shellKey, msg.clientId, msg.sid,
                                                  msg.cols, msg.rows, {})
                  /\ clientShells' = [clientShells EXCEPT ![a] =
                                        MapSet(@, shellKey, nextPid + 1)]
                  /\ nextPid' = nextPid + 1
             ELSE /\ ptys' = [ptys EXCEPT ![clientShells[a][shellKey]] =
                                [@ EXCEPT !.cols = msg.cols, !.rows = msg.rows]]
                  /\ UNCHANGED <<clientShells, nextPid>>
  /\ Recorded(NoEv, {})
  /\ UNCHANGED <<hubVars, connected, sessionShells, sessionDimensions, killedSessions,
                 respawnTimers, toHub>>
  /\ KeepLogs /\ KeepGhostSessions

\* socket.on('client-disconnect') of the agent with one shell per client
ClientShellDisconnect(a) ==
  /\ AgentHead(a, "client-disconnect")
  /\ LET clientId == Head(toAgent[a]).clientId
         keys == {key \in DOMAIN clientShells[a] : key[1] = clientId}
         pids == {clientShells[a][key] : key \in keys}
     IN /\ ptys' = [p \in DOMAIN ptys |->
                      IF p \in pids THEN [ptys[p] EXCEPT !.st = "killed"] ELSE ptys[p]]
        /\ clientShells' = [clientShells EXCEPT ![a] =
                              [key \in DOMAIN @ \ keys |-> @[key]]]
  /\ toAgent' = [toAgent EXCEPT ![a] = Tail(@)]
  /\ Recorded(NoEv, {})
  /\ UNCHANGED <<hubVars, connected, sessionShells, sessionDimensions, killedSessions,
                 respawnTimers, nextPid, toHub>>
  /\ KeepLogs /\ KeepGhostSessions

\* shell.onData of a client's shell
ClientShellData(p) ==
  /\ p \in DOMAIN ptys /\ "client" \in DOMAIN ptys[p]
  /\ connected[ptys[p].agent]
  /\ nOut < MaxOutputs
  /\ toHub' = [toHub EXCEPT ![ptys[p].agent] =
                 Append(@, ClientOutputMsg(ptys[p].client, ptys[p].sid, nOut + 1, OutLen))]
  /\ QueuesFit(toHub')
  /\ nOut' = nOut + 1
  /\ emitted' = Logged(Append(emitted, [agent |-> ptys[p].agent, sid |-> ptys[p].sid,
                                        client |-> ptys[p].client,
                                        writers |-> ptys[p].writers]),
                        emitted)
  /\ Observe(NoEv, {})
  /\ UNCHANGED <<hubVars, agentVars, toAgent, outLog, lost, snap, preRestart>>
  /\ KeepGhostSessions

\* shell.onExit of a client's shell
ClientShellExit(p) ==
  /\ p \in DOMAIN ptys /\ "client" \in DOMAIN ptys[p]
  /\ ptys' = MapDelete(ptys, p)
  /\ clientShells' = [clientShells EXCEPT ![ptys[p].agent] = MapDelete(@, ptys[p].key)]
  /\ Recorded(NoEv, {})
  /\ UNCHANGED <<hubVars, connected, sessionShells, sessionDimensions, killedSessions,
                 respawnTimers, nextPid, linkVars>>
  /\ KeepLogs /\ KeepGhostSessions

\* ================================================= hub: admin credential
\* (process.env.NEXUS_SETUP_TOKEN || '').trim()
setupToken == Trim(config.NEXUS_SETUP_TOKEN)
\* the Authorization header: none, a token some handler signed, any other
Bearers == {"none", "jwt", "forged"}
\* what a caller can put there: a signed token only once one was issued
KnownBearers == IF jwtIssued = {} THEN Bearers \ {"jwt"} ELSE Bearers
\* the x-setup-token header or the setupToken field of a setup request
SetupTickets == {NoToken, Secret, <<"k", "3", "z">>}

\* hashPassword(password, salt): pbkdf2 of the password under the salt; the
\* digest is a function of the two (the iteration count is always the default)
hashPassword(password, salt) == [hash |-> <<password, salt>>, salt |-> salt]
\* the AuthState that setup, password and bootstrap save
AuthStateOf(password, salt) ==
  [passwordHash |-> hashPassword(password, salt).hash, salt |-> salt]
verifyPassword(password, state) ==
  hashPassword(password, state.salt).hash = state.passwordHash
isLoopbackRequest(ip) == ip \in {"127.0.0.1", "::1", "::ffff:127.0.0.1"}
\* header: req.header('x-setup-token'), body: req.body.setupToken
isSetupAllowed(ip, header, body) ==
  IF setupToken = NoToken THEN isLoopbackRequest(ip)
  ELSE LET token == IF header # NoToken THEN header ELSE body
       IN IF token = NoToken THEN FALSE ELSE safeEqual(token, setupToken)
\* bootstrapInitialPassword(): the record after the start of the hub
bootstrapInitialPassword(existing, envPassword, salt) ==
  IF existing # NoAuth THEN existing
  ELSE IF envPassword = NoPassword THEN existing
  ELSE AuthStateOf(envPassword, salt)

Answer(status, error) == [status |-> status, error |-> error]
Accepted == Answer(200, "")
\* requireAuth: the answer that ends the request, or Accepted for next()
requireAuth(bearer) ==
  IF bearer = "none" THEN Answer(401, "Missing token")
  ELSE IF bearer # "jwt" THEN Answer(401, "Invalid token")
  ELSE Accepted
\* app.post('/api/auth/setup') after state = await loadAuthState()
SetupAnswer(state, ip, header, body, password) ==
  IF state # NoAuth THEN Answer(400, "Already configured")
  ELSE IF ~isSetupAllowed(ip, header, body)
    THEN Answer(403, IF setupToken # NoToken THEN "Invalid setup token"
                     ELSE "Setup allowed only from localhost")
  ELSE IF password = NoPassword \/ password.len < MinPasswordLen
    THEN Answer(400, "Password must be at least 8 characters")
  ELSE Accepted
\* app.post('/api/auth/login') after state = await loadAuthState()
LoginAnswer(state, password) ==
  IF state = NoAuth THEN Answer(400, "Not configured")
  ELSE IF password = NoPassword THEN Answer(400, "Password required")
  ELSE IF ~verifyPassword(password, state) THEN Answer(401, "Invalid credentials")
  ELSE Accepted
\* app.post('/api/auth/password', requireAuth, ...)
PasswordAnswer(state, bearer, currentPassword, newPassword) ==
  IF requireAuth(bearer) # Accepted THEN requireAuth(bearer)
  ELSE IF state = NoAuth THEN Answer(400, "Not configured")
  ELSE IF currentPassword = NoPassword \/ newPassword = NoPassword
    THEN Answer(400, "Missing fields")
  ELSE IF ~verifyPassword(currentPassword, state) THEN Answer(401, "Invalid credentials")
  ELSE IF newPassword.len < MinPasswordLen THEN Answer(400, "New password too short")
  ELSE Accepted

\* a request of slot r and where its handler is
Slot(op, pc, ip, header, body, bearer, password, currentPassword, state, answer) ==
  [op |-> op, pc |-> pc, ip |-> ip, header |-> header, body |-> body, bearer |-> bearer,
   password |-> password, currentPassword |-> currentPassword, state |-> state,
   status |-> answer.status, error |-> answer.error]
\* a step of an HTTP handler leaves the sockets and the agents alone
AuthStep ==
  /\ Kept(NoEv, {})
  /\ UNCHANGED <<hubVars, agentVars, linkVars, clientShells, aclVars>>
  /\ KeepLogs /\ KeepGhostSessions

\* POST /api/auth/setup of part_005: loadAuthState and saveAuthState run
\* synchronous SQLite statements, so the handler runs to its response before
\* another request is looked at
Setup(r, ip, header, body, password, salt) ==
  /\ http[r].pc # "loaded"
  /\ LET answer == SetupAnswer(authState, ip, header, body, password)
     IN /\ authState' = IF answer = Accepted THEN AuthStateOf(password, salt)
                        ELSE authState
        /\ jwtIssued' = IF answer = Accepted THEN jwtIssued \cup {"setup"} ELSE jwtIssued
        /\ http' = [http EXCEPT ![r] = Slot("setup", "done", ip, header, body, "none",
                                            password, NoPassword, authState, answer)]
  /\ AuthStep

\* POST /api/auth/login
Login(r, password) ==
  /\ http[r].pc # "loaded"
  /\ LET answer == LoginAnswer(authState, password)
     IN /\ jwtIssued' = IF answer = Accepted THEN jwtIssued \cup {"login"} ELSE jwtIssued
        /\ http' = [http EXCEPT ![r] = Slot("login", "done", "", NoToken, NoToken, "none",
                                            password, NoPassword, authState, answer)]
  /\ UNCHANGED authState
  /\ AuthStep

\* POST /api/auth/password
Password(r, bearer, currentPassword, newPassword, salt) ==
  /\ http[r].pc # "loaded"
  /\ bearer \in KnownBearers
  /\ LET answer == PasswordAnswer(authState, bearer, currentPassword, newPassword)
     IN /\ authState' = IF answer = Accepted THEN AuthStateOf(newPassword, salt)
                        ELSE authState
        /\ http' = [http EXCEPT ![r] = Slot("password", "done", "", NoToken, NoToken,
                                            bearer, newPassword, currentPassword,
                                            authState, answer)]
  /\ UNCHANGED jwtIssued
  /\ AuthStep

\* POST /api/auth/setup of nexus/src/index.ts up to the end of
\* await loadAuthState(): fs.readFile has read .qodo/auth.json
NexusSetupLoad(r, ip, header, body, password) ==
  /\ http[r].pc # "loaded"
  /\ http' = [http EXCEPT ![r] = Slot("setup", "loaded", ip, header, body, "none",
                                      password, NoPassword, authState, Answer(0, ""))]
  /\ UNCHANGED <<authState, jwtIssued>>
  /\ AuthStep

\* the rest of that handler: the checks on the state it read, fs.writeFile of
\* the new record, the response
NexusSetupSave(r, salt) ==
  /\ http[r].pc = "loaded" /\ http[r].op = "setup"
  /\ LET q == http[r]
         answer == SetupAnswer(q.state, q.ip, q.header, q.body, q.password)
     IN /\ authState' = IF answer = Accepted THEN AuthStateOf(q.password, salt)
                        ELSE authState
        /\ jwtIssued' = IF answer = Accepted THEN jwtIssued \cup {"setup"} ELSE jwtIssued
        /\ http' = [http EXCEPT ![r] = [q EXCEPT !.pc = "done", !.status = answer.status,
                                                 !.error = answer.error]]
  /\ AuthStep

\* ============================================ hub with per-agent API keys
\* the user of the token each client socket connected with, and the worker
\* whose API key each agent socket connected with (WorkerModel.findByApiKey)
UserOf(c) == IF c = "c1" THEN "u1" ELSE "u3"
WorkerOfKey(a) == IF a = "a1" THEN "w1" ELSE "w2"
\* req.user.isAdmin
AdminUsers == {"u2"}
\* the permission field of a share request; "" stands for a missing one
Permissions == {"", "view", "control", "admin", "read"}
\* levels[permission]; a string that is not a level gives undefined, and
\* undefined >= n is false as 0 >= n is for every level n
levels(permission) ==
  CASE permission = "view" -> 1
    [] permission = "control" -> 2
    [] permission = "admin" -> 3
    [] OTHER -> 0

\* mutant: any share gives every permission
hasAccessAnyShare(userId, workerId, requiredPermission) ==
  /\ workerId \in ApiWorkers
  /\ \/ owner_id[workerId] = userId
     \/ Has(worker_shares, <<workerId, userId>>)

\* WorkerModel.hasAccess(userId, workerId, requiredPermission)
hasAccess(userId, workerId, requiredPermission) ==
  IF workerId \notin ApiWorkers THEN FALSE
  ELSE IF owner_id[workerId] = userId THEN TRUE
  ELSE IF ~Has(worker_shares, <<workerId, userId>>) THEN FALSE
  ELSE levels(worker_shares[<<workerId, userId>>]) >= levels(requiredPermission)

ErrorFrame(c, text) ==
  [to |-> c, type |-> "error", sid |-> NoSid, k |-> 0, text |-> text]
\* a step of the API-key hub leaves the other programs alone
ApiStep(e, frames) ==
  /\ Kept(e, frames)
  /\ UNCHANGED <<hubVars, agentVars, linkVars, clientShells, authVars>>
  /\ KeepLogs /\ KeepGhostSessions

\* io.use, type === 'worker', with the API key of worker w
ApiWorkerConnect(a, w) ==
  /\ apiSockets[a] = ""
  /\ apiSockets' = [apiSockets EXCEPT ![a] = w]
  /\ apiWorkers' = MapSet(apiWorkers, w, a)
  /\ UNCHANGED <<worker_shares, rooms>>
  /\ ApiStep(Ev("api-connect", a, NoSid, w), {})

\* socket.on('disconnect') of a worker socket
ApiWorkerDisconnect(a) ==
  /\ apiSockets[a] # ""
  /\ apiSockets' = [apiSockets EXCEPT ![a] = ""]
  /\ apiWorkers' = MapDelete(apiWorkers, apiSockets[a])
  /\ UNCHANGED <<worker_shares, rooms>>
  /\ ApiStep(Ev("api-disconnect", a, NoSid, apiSockets[a]), {})

\* WorkerController.share, called by user by
Share(by, workerId, targetUserId, permission) ==
  /\ LET allowed == workerId \in ApiWorkers
                    /\ (owner_id[workerId] = by \/ by \in AdminUsers)
     IN /\ worker_shares' =
             IF allowed
               THEN MapSet(worker_shares, <<workerId, targetUserId>>,
                           IF permission = "" THEN "view" ELSE permission)
               ELSE worker_shares
        /\ ApiStep(IF allowed THEN Ev("share", by, NoSid, workerId)
                              ELSE Dropped("share", by, NoSid, workerId), {})
  /\ UNCHANGED <<apiWorkers, rooms, apiSockets>>

\* socket.on('execute') of a client socket
ApiExecute(c, workerId) ==
  /\ LET granted == hasAccess(UserOf(c), workerId, "control")
         online == Has(apiWorkers, workerId)
     IN ApiStep(IF granted /\ online THEN Ev("api-execute", c, NoSid, workerId)
                                     ELSE Dropped("api-execute", c, NoSid, workerId),
                IF ~granted THEN {ErrorFrame(c, "Access denied to worker")}
                ELSE IF ~online THEN {ErrorFrame(c, "Worker is offline")}
                ELSE {Frame(apiWorkers[workerId], "execute", DEFAULT_SESSION_ID, 0)})
  /\ UNCHANGED aclVars

\* socket.on('subscribe') of a client socket
Subscribe(c, workerId) ==
  /\ LET granted == hasAccess(UserOf(c), workerId, "view")
     IN /\ rooms' = IF granted /\ workerId \in ApiWorkers
                      THEN [rooms EXCEPT ![workerId] = @ \cup {c}] ELSE rooms
        /\ ApiStep(IF granted THEN Ev("subscribe", c, NoSid, workerId)
                              ELSE Dropped("subscribe", c, NoSid, workerId),
                   IF granted THEN {} ELSE {ErrorFrame(c, "Access denied")})
  /\ UNCHANGED <<worker_shares, apiWorkers, apiSockets>>

\* socket.on('output') of the socket of a connected worker
ApiOutput(a) ==
  /\ apiSockets[a] # ""
  /\ ApiStep(Ev("api-output", a, NoSid, apiSockets[a]),
             {Frame(c, "output", NoSid, 0) : c \in rooms[apiSockets[a]]})
  /\ UNCHANGED aclVars

\* ============================================================ specification
Init ==
  /\ config = StdConfig
  /\ IdlePlanes
  /\ sharedSessions = EmptyMap
  /\ db = EmptyMap
  /\ sessionSaveTimer = <<>>
  /\ sessionClients = EmptyMap
  /\ sessionPtySizes = EmptyMap
  /\ workers = <<>>
  /\ role = [s \in Socks |-> "none"]
  /\ connected = [a \in Agents |-> FALSE]
  /\ sessionShells = [a \in Agents |-> EmptyMap]
  /\ sessionDimensions = [a \in Agents |-> EmptyMap]
  /\ killedSessions = [a \in Agents |-> {}]
  /\ ptys = EmptyMap
  /\ respawnTimers = {}
  /\ nextPid = 0
  /\ toHub = [a \in Agents |-> <<>>]
  /\ toAgent = [a \in Agents |-> <<>>]
  /\ ev = NoEv
  /\ sent = {}
  /\ outLog = [c \in Clients |-> <<>>]
  /\ nOut = 0
  /\ emitted = <<>>
  /\ lost = {}
  /\ snap = [c \in Clients |-> {}]
  /\ preRestart = EmptyMap
  /\ restarted = FALSE
  /\ expectName = EmptyMap
  /\ closedIds = {}
  /\ usedIds = {}
  /\ killProcessed = [a \in Agents |-> {}]
  /\ probe = {"frames", "log"}

\* ================================================== agent: reconnect backoff
\* mutant: a backoff that doubles without the cap
GrowRetryDelayUncapped(d) == d * 2

\* retryDelay = Math.min(retryDelay * 2, MAX_RETRY_DELAY)
GrowRetryDelay(d) == Min(d * 2, MAX_RETRY_DELAY)

\* Math.floor(Math.random() * 250)
Jitters == 0..(JITTER_MS - 1)

BackoffStep ==
  /\ Stepped(NoEv, {})
  /\ UNCHANGED <<hubVars, agentVars, linkVars, clientShells, authVars, aclVars>>
  /\ KeepLogs /\ KeepGhostSessions

\* function scheduleReconnect(), called for a socket that is not connected
scheduleReconnect(jitter) ==
  /\ reconnectTimer' = <<retryDelay + jitter>>
  /\ retryDelay' = GrowRetryDelay(retryDelay)

\* socket.on('connect')
SocketConnect ==
  /\ socketState = "connecting"
  /\ socketState' = "connected"
  /\ retryDelay' = INITIAL_RETRY_DELAY
  /\ UNCHANGED reconnectTimer
  /\ BackoffStep

\* socket.on('connect_error')
SocketConnectError(jitter) ==
  /\ socketState = "connecting"
  /\ socketState' = "closed"
  /\ scheduleReconnect(jitter)
  /\ BackoffStep

\* socket.on('disconnect')
SocketDisconnect(jitter) ==
  /\ socketState = "connected"
  /\ socketState' = "closed"
  /\ scheduleReconnect(jitter)
  /\ BackoffStep

\* the setTimeout of scheduleReconnect fires: connect()
ReconnectTimerFire ==
  /\ reconnectTimer # <<>>
  /\ reconnectTimer' = <<>>
  /\ socketState' = "connecting"
  /\ UNCHANGED retryDelay
  /\ BackoffStep

Next ==
  \/ \E c \in Clients : ClientConnect(c)
  \/ \E c \in Clients : ClientRegister(c)
  \/ \E c \in Clients, id \in Sids, n \in WorkerNames, d \in DisplayNames :
       CreateSession(c, id, n, normalizeWorkerKey(n), d)
  \/ \E c \in Clients, id \in Sids : CloseSession(c, id)
  \/ \E c \in Clients, id \in Sids, d \in DisplayNames : RenameSession(c, id, d)
  \/ \E c \in Clients, id \in Sids : GetSessionOutput(c, id)
  \/ \E c \in Clients : GetSessionList(c)
  \/ \E c \in Clients, w \in Agents, id \in Sids \cup {NoSid}, n \in CommandLens :
       Execute(c, w, id, n)
  \/ \E c \in Clients, w \in Agents, id \in Sids \cup {NoSid}, z \in ViewSizes :
       Resize(c, w, id, z)
  \/ \E c \in Clients, id \in Sids, z \in ViewSizes : JoinSession(c, id, z)
  \/ \E c \in Clients, id \in Sids : LeaveSession(c, id)
  \/ \E c \in Clients : ClientDisconnect(c)
  \/ \E a \in Agents : RegisterWorker(a)
  \/ \E a \in Agents : Heartbeat(a)
  \/ \E a \in Agents : Output(a)
  \/ \E a \in Agents : SessionShellExited(a)
  \/ \E c \in Clients, n \in WorkerNames : SendRegister(c, n)
  \/ \E c \in Clients : SendHeartbeat(c)
  \/ \E c \in Clients, id \in Sids : SendOutput(c, id)
  \/ HealthSweep
  \/ SessionSaveFire
  \/ \E a \in Agents : AgentConnect(a)
  \/ \E a \in Agents : AgentHeartbeat(a)
  \/ \E a \in Agents : AgentExecute(a)
  \/ \E a \in Agents : AgentResize(a)
  \/ \E a \in Agents : KillSession(a)
  \/ \E p \in 1..MaxSpawns : PtyData(p)
  \/ \E p \in 1..MaxSpawns, x \in ExitCodes : ShellExit(p, x)
  \/ \E t \in respawnTimers : Respawn(t)
  \/ \E a \in Agents : WorkerDisconnect(a)
  \/ HubRestart
  \/ \E c \in Clients, a \in Agents, n \in CommandLens : NexusExecute(c, a, n)
  \/ \E c \in Clients, a \in Agents, z \in ViewSizes : NexusResize(c, a, z)
  \/ \E a \in Agents : NexusOutput(a)
  \/ \E c \in Clients : NexusClientDisconnect(c)
  \/ \E a \in Agents : ClientShellExecute(a)
  \/ \E a \in Agents : ClientShellResize(a)
  \/ \E a \in Agents : ClientShellDisconnect(a)
  \/ \E p \in 1..MaxSpawns : ClientShellData(p)
  \/ \E p \in 1..MaxSpawns : ClientShellExit(p)
  \/ \E r \in Reqs, ip \in Ips, h \in SetupTickets, b \in SetupTickets,
        pw \in Passwords \cup {NoPassword}, salt \in Salts :
       \/ Setup(r, ip, h, b, pw, salt)
       \/ NexusSetupLoad(r, ip, h, b, pw)
  \/ \E r \in Reqs, salt \in Salts : NexusSetupSave(r, salt)
  \/ \E r \in Reqs, pw \in Passwords \cup {NoPassword} : Login(r, pw)
  \/ \E r \in Reqs, bearer \in Bearers, cur \in Passwords \cup {NoPassword},
        pw \in Passwords \cup {NoPassword}, salt \in Salts :
       Password(r, bearer, cur, pw, salt)
  \/ \E a \in Agents, w \in ApiWorkers : ApiWorkerConnect(a, w)
  \/ \E a \in Agents : ApiWorkerDisconnect(a)
  \/ \E a \in Agents : ApiOutput(a)
  \/ \E by \in Users, w \in ApiWorkers \cup {"w9"}, u \in Users, p \in Permissions :
       Share(by, w, u, p)
  \/ \E c \in Clients, w \in ApiWorkers \cup {"w9"} : ApiExecute(c, w)
  \/ \E c \in Clients, w \in ApiWorkers \cup {"w9"} : Subscribe(c, w)
  \/ SocketConnect
  \/ \E jitter \in Jitters : SocketConnectError(jitter)
  \/ \E jitter \in Jitters : SocketDisconnect(jitter)
  \/ ReconnectTimerFire

Spec == Init /\ [][Next]_vars

\* ------------------------------------------------------------ session store
\* The store plane: one client, one agent, session ids that are globally
\* unique (a create-session carries an id no create-session carried before).
NextStore ==
  \/ ClientConnect("c1")
  \/ ClientDisconnect("c1")
  \/ \E id \in Sids \ usedIds, d \in DisplayNames :
       CreateSession("c1", id, "Alpha", normalizeWorkerKey("Alpha"), d)
  \/ \E id \in Sids : CloseSession("c1", id)
  \/ \E id \in Sids, d \in DisplayNames : RenameSession("c1", id, d)
  \/ AgentConnect("a1")
  \/ RegisterWorker("a1")
  \/ KillSession("a1")
  \/ \E p \in 1..MaxSpawns : PtyData(p)
  \/ Output("a1")
  \/ SessionSaveFire
  \/ WorkerDisconnect("a1")
  \/ HubRestart

\* Agent a1 is registered and runs a PTY for s1; client c1 is connected.  Spec
\* reaches this state by AgentConnect, RegisterWorker, ClientConnect, Execute
\* and AgentExecute.
InitStore ==
  /\ config = StdConfig
  /\ IdlePlanes
  /\ sharedSessions = EmptyMap
  /\ db = EmptyMap
  /\ sessionSaveTimer = <<>>
  /\ sessionClients = EmptyMap
  /\ sessionPtySizes = EmptyMap
  /\ workers = <<[id |-> "a1", socketId |-> "a1", name |-> WORKER_NAME["a1"],
                  lastSeen |-> 0, status |-> "online"]>>
  /\ role = [s \in Socks |-> IF s = "a1" THEN "worker" ELSE IF s = "c1" THEN "client"
                             ELSE "none"]
  /\ connected = [a \in Agents |-> a = "a1"]
  /\ sessionShells = [a \in Agents |-> IF a = "a1" THEN ("s1" :> 1) ELSE EmptyMap]
  /\ sessionDimensions =
       [a \in Agents |-> IF a = "a1"
                           THEN ("s1" :> [cols |-> SpawnDefaultCols, rows |-> SpawnDefaultRows])
                           ELSE EmptyMap]
  /\ killedSessions = [a \in Agents |-> {}]
  /\ ptys = (1 :> [agent |-> "a1", sid |-> "s1", cols |-> SpawnDefaultCols,
                   rows |-> SpawnDefaultRows, st |-> "running"])
  /\ respawnTimers = {}
  /\ nextPid = 1
  /\ toHub = [a \in Agents |-> <<>>]
  /\ toAgent = [a \in Agents |-> <<>>]
  /\ ev = NoEv
  /\ sent = {}
  /\ outLog = [c \in Clients |-> <<>>]
  /\ nOut = 0
  /\ emitted = <<>>
  /\ lost = {}
  /\ snap = [c \in Clients |-> {}]
  /\ preRestart = EmptyMap
  /\ restarted = FALSE
  /\ expectName = EmptyMap
  /\ closedIds = {}
  /\ usedIds = {}
  /\ killProcessed = [a \in Agents |-> {}]
  /\ probe = {}

SpecStore == InitStore /\ [][NextStore]_vars

\* C4: a session that was created and then closed is in neither the hub's
\* session map nor the sessions table, in every later state.
ClosedStaysAbsent ==
  \A id \in closedIds : ~Has(sharedSessions, id) /\ ~Has(db, id)

\* C9: a session that was created and not closed is in the hub's session map
\* under its id, with the display name it was last given.
SessionSurvives ==
  \A id \in DOMAIN expectName :
    /\ Has(sharedSessions, id)
    /\ sharedSessions[id].id = id
    /\ sharedSessions[id].displayName = expectName[id]

SessionSurvivesRestart ==
  /\ restarted
  /\ \E id \in DOMAIN expectName :
       /\ Has(preRestart, id) /\ preRestart[id].output # <<>>
       /\ sharedSessions[id].displayName = "dev"

\* C10: in the state a hub start produces, the tail of every session that was
\* there before is a suffix of the tail the hub held when it stopped, and is
\* at most MAX_OUTPUT_CHARS long.
RestartTailIsSuffix ==
  restarted =>
    \A id \in DOMAIN sharedSessions \cap DOMAIN preRestart :
      /\ IsSuffix(sharedSessions[id].output, preRestart[id].output)
      /\ Chars(sharedSessions[id].output) <= MAX_OUTPUT_CHARS

\* ------------------------------------------------------------------ routing
\* initial values of the observation variables, recording what p names
FreshObs(p) ==
  /\ ev = NoEv
  /\ sent = {}
  /\ outLog = [c \in Clients |-> <<>>]
  /\ nOut = 0
  /\ emitted = <<>>
  /\ lost = {}
  /\ snap = [c \in Clients |-> {}]
  /\ preRestart = EmptyMap
  /\ restarted = FALSE
  /\ killProcessed = [a \in Agents |-> {}]
  /\ probe = p

\* The routing plane: client c1 sends execute with any worker id, the agents
\* come and go and the liveness sweep runs.
NextRoute ==
  \/ \E n \in WorkerNames : CreateSession("c1", "s1", n, normalizeWorkerKey(n), "tty")
  \/ \E w \in Agents, n \in CommandLens : Execute("c1", w, "s1", n)
  \/ \E a \in Agents : AgentConnect(a)
  \/ \E a \in Agents : RegisterWorker(a)
  \/ \E a \in Agents : AgentHeartbeat(a)
  \/ \E a \in Agents : Heartbeat(a)
  \/ HealthSweep
  \/ \E a \in Agents : AgentExecute(a)
  \/ \E a \in Agents : WorkerDisconnect(a)

\* The hub has started with an empty table and client c1 has connected.
InitRoute ==
  /\ config = StdConfig
  /\ IdlePlanes
  /\ sharedSessions = EmptyMap
  /\ db = EmptyMap
  /\ sessionSaveTimer = <<>>
  /\ sessionClients = EmptyMap
  /\ sessionPtySizes = EmptyMap
  /\ workers = <<>>
  /\ role = [s \in Socks |-> IF s = "c1" THEN "client" ELSE "none"]
  /\ connected = [a \in Agents |-> FALSE]
  /\ sessionShells = [a \in Agents |-> EmptyMap]
  /\ sessionDimensions = [a \in Agents |-> EmptyMap]
  /\ killedSessions = [a \in Agents |-> {}]
  /\ ptys = EmptyMap
  /\ respawnTimers = {}
  /\ nextPid = 0
  /\ toHub = [a \in Agents |-> <<>>]
  /\ toAgent = [a \in Agents |-> <<>>]
  /\ expectName = EmptyMap
  /\ closedIds = {}
  /\ usedIds = {}
  /\ FreshObs({"frames"})

SpecRoute == InitRoute /\ [][NextRoute]_vars

\* the agents registered under the worker key that owns session id
OwnersOf(id) ==
  {workers[i].id : i \in {j \in 1..Len(workers) :
                            normalizeWorkerKey(workers[j].name) = sharedSessions[id].workerKey}}
\* an execute of a client that named an existing session got past the hub's guards
ExecuteHandled ==
  ev.type = "execute" /\ ev.ok /\ Has(sharedSessions, ev.sid)

\* C6: an execute that names session S is forwarded to no agent but the one
\* registered under the worker key that owns S, whatever workerId it carries.
ExecuteGoesToOwner ==
  ExecuteHandled =>
    \A f \in sent : f.type = "execute" => f.to \in OwnersOf(ev.sid)

\* C7: an execute for a session whose owning agent is not registered, or is
\* marked offline by the sweep, is forwarded to no agent and answered with an
\* error frame to the client that sent it.
ExecuteOfflineIsError ==
  (/\ ExecuteHandled
   /\ \A i \in 1..Len(workers) :
        workers[i].id \in OwnersOf(ev.sid) => workers[i].status = "offline")
  => /\ \A f \in sent : f.type # "execute"
     /\ \E f \in sent : f.type = "error" /\ f.to = ev.sock

\* --------------------------------------------------------------- output
\* The output plane: session s1 of worker Alpha exists and agent a1 runs its
\* PTY; the clients come, go, join and leave while the PTY writes and the link
\* of the agent drops and comes back.
OutViewport == [cols |-> 80, rows |-> 24]
NextOut ==
  \/ \E c \in Clients : ClientConnect(c)
  \/ \E c \in Clients : ClientDisconnect(c)
  \/ \E c \in Clients, id \in Sids : JoinSession(c, id, OutViewport)
  \/ \E c \in Clients, id \in Sids : LeaveSession(c, id)
  \/ \E p \in 1..MaxSpawns : PtyData(p)
  \/ Output("a1")
  \/ WorkerDisconnect("a1")
  \/ AgentConnect("a1")
  \/ RegisterWorker("a1")

InitOut ==
  /\ config = StdConfig
  /\ IdlePlanes
  /\ sharedSessions = ("s1" :> SharedSession("s1", "Alpha", "alpha", "tty", <<>>))
  /\ db = sharedSessions
  /\ sessionSaveTimer = <<>>
  /\ sessionClients = EmptyMap
  /\ sessionPtySizes = EmptyMap
  /\ workers = <<[id |-> "a1", socketId |-> "a1", name |-> WORKER_NAME["a1"],
                  lastSeen |-> 0, status |-> "online"]>>
  /\ role = [s \in Socks |-> IF s = "a1" THEN "worker" ELSE "none"]
  /\ connected = [a \in Agents |-> a = "a1"]
  /\ sessionShells = [a \in Agents |-> IF a = "a1" THEN ("s1" :> 1) ELSE EmptyMap]
  /\ sessionDimensions =
       [a \in Agents |-> IF a = "a1"
                           THEN ("s1" :> [cols |-> SpawnDefaultCols, rows |-> SpawnDefaultRows])
                           ELSE EmptyMap]
  /\ killedSessions = [a \in Agents |-> {}]
  /\ ptys = (1 :> [agent |-> "a1", sid |-> "s1", cols |-> SpawnDefaultCols,
                   rows |-> SpawnDefaultRows, st |-> "running"])
  /\ respawnTimers = {}
  /\ nextPid = 1
  /\ toHub = [a \in Agents |-> <<>>]
  /\ toAgent = [a \in Agents |-> <<>>]
  /\ expectName = ("s1" :> "tty")
  /\ closedIds = {}
  /\ usedIds = {"s1"}
  /\ FreshObs({"frames", "log"})

SpecOut == InitOut /\ [][NextOut]_vars

Attached(c, id) == Has(sessionClients, id) /\ Has(sessionClients[id], c)

\* C1: an output frame the hub emits for a session goes to no client but the
\* ones attached to that session.
OutputOnlyToAttached ==
  ev.type = "output" =>
    \A f \in sent : f.type = "output" /\ f.to \in Clients => Attached(f.to, f.sid)

\* the payloads of agent a for session id that client c is due: emitted, not
\* settled before c connected or joined, not dropped with a link, not travelling
Due(c, a, id) ==
  {k \in 1..nOut : /\ emitted[k] = [agent |-> a, sid |-> id]
                   /\ k \notin snap[c] \cup lost \cup InFlight}
\* the payloads of agent a for session id in the frames delivered to c, in order
Got(c, a, id) == SelectSeq(outLog[c], LAMBDA e : e.from = a /\ e.sid = id)

\* C8: what a client attached to a session is delivered of the session's agent
\* is every payload the agent emitted on a link that stayed up, once each and
\* in the order of emission.
OutputInOrder ==
  \A c \in Clients, a \in Agents, id \in Sids :
    Attached(c, id) /\ role[c] = "client" =>
      LET got == Got(c, a, id)
      IN /\ \A i, j \in 1..Len(got) : i < j => got[i].k < got[j].k
         /\ {got[i].k : i \in 1..Len(got)} = Due(c, a, id)

AttachedClientGotOutputs ==
  \E c \in Clients :
    /\ Attached(c, "s1") /\ role[c] = "client"
    /\ Len(Got(c, "a1", "s1")) >= 2
    /\ lost # {}

\* ---------------------------------------------------------------- viewport
\* The viewport plane: session s1 of worker Alpha exists, agent a1 is registered
\* and runs its PTY; the clients attach, detach, resize and disconnect.
NextView ==
  \/ \E c \in Clients : ClientConnect(c)
  \/ \E c \in Clients : ClientDisconnect(c)
  \/ \E c \in Clients, z \in ViewSizes : JoinSession(c, "s1", z)
  \/ \E c \in Clients : LeaveSession(c, "s1")
  \/ \E c \in Clients, z \in ViewSizes : Resize(c, "a1", "s1", z)
  \/ AgentResize("a1")

InitView ==
  /\ config = StdConfig
  /\ IdlePlanes
  /\ sharedSessions = ("s1" :> SharedSession("s1", "Alpha", "alpha", "tty", <<>>))
  /\ db = sharedSessions
  /\ sessionSaveTimer = <<>>
  /\ sessionClients = EmptyMap
  /\ sessionPtySizes = EmptyMap
  /\ workers = <<[id |-> "a1", socketId |-> "a1", name |-> WORKER_NAME["a1"],
                  lastSeen |-> 0, status |-> "online"]>>
  /\ role = [s \in Socks |-> IF s = "a1" THEN "worker" ELSE "none"]
  /\ connected = [a \in Agents |-> a = "a1"]
  /\ sessionShells = [a \in Agents |-> IF a = "a1" THEN ("s1" :> 1) ELSE EmptyMap]
  /\ sessionDimensions =
       [a \in Agents |-> IF a = "a1"
                           THEN ("s1" :> [cols |-> SpawnDefaultCols, rows |-> SpawnDefaultRows])
                           ELSE EmptyMap]
  /\ killedSessions = [a \in Agents |-> {}]
  /\ ptys = (1 :> [agent |-> "a1", sid |-> "s1", cols |-> SpawnDefaultCols,
                   rows |-> SpawnDefaultRows, st |-> "running"])
  /\ respawnTimers = {}
  /\ nextPid = 1
  /\ toHub = [a \in Agents |-> <<>>]
  /\ toAgent = [a \in Agents |-> <<>>]
  /\ expectName = ("s1" :> "tty")
  /\ closedIds = {}
  /\ usedIds = {"s1"}
  /\ FreshObs({})

SpecView == InitView /\ [][NextView]_vars

RECURSIVE MinOf(_)
MinOf(S) ==
  LET x == CHOOSE y \in S : TRUE
  IN IF S = {x} THEN x ELSE Min(x, MinOf(S \ {x}))

\* C5: for a session with at least one attached viewer, the size the hub last
\* told the agent to apply is the minimum of the viewers' cols by the minimum
\* of the viewers' rows.
PtySizeIsViewersMinimum ==
  \A id \in Sids :
    (/\ Has(sessionClients, id) /\ DOMAIN sessionClients[id] # {}
     /\ Has(sessionPtySizes, id))
    => sessionPtySizes[id] =
         [cols |-> MinOf({sessionClients[id][c].cols : c \in DOMAIN sessionClients[id]}),
          rows |-> MinOf({sessionClients[id][c].rows : c \in DOMAIN sessionClients[id]})]

\* ------------------------------------------------------------------- kill
\* The kill plane: session s1 of worker Alpha exists, agent a1 is registered
\* and runs its PTY, client c1 is connected.  The client closes the session
\* and sends execute; shells end and respawn; the link of the agent drops and
\* comes back.
NextAgent ==
  \/ CloseSession("c1", "s1")
  \/ Execute("c1", "a1", "s1", 2)
  \/ AgentExecute("a1")
  \/ KillSession("a1")
  \/ \E p \in 1..MaxSpawns, x \in ExitCodes : ShellExit(p, x)
  \/ \E t \in respawnTimers : Respawn(t)
  \/ Output("a1")
  \/ SessionShellExited("a1")
  \/ WorkerDisconnect("a1")
  \/ AgentConnect("a1")
  \/ RegisterWorker("a1")

InitAgent ==
  /\ config = StdConfig
  /\ IdlePlanes
  /\ sharedSessions = ("s1" :> SharedSession("s1", "Alpha", "alpha", "tty", <<>>))
  /\ db = sharedSessions
  /\ sessionSaveTimer = <<>>
  /\ sessionClients = EmptyMap
  /\ sessionPtySizes = EmptyMap
  /\ workers = <<[id |-> "a1", socketId |-> "a1", name |-> WORKER_NAME["a1"],
                  lastSeen |-> 0, status |-> "online"]>>
  /\ role = [s \in Socks |-> IF s = "a1" THEN "worker" ELSE IF s = "c1" THEN "client"
                             ELSE "none"]
  /\ connected = [a \in Agents |-> a = "a1"]
  /\ sessionShells = [a \in Agents |-> IF a = "a1" THEN ("s1" :> 1) ELSE EmptyMap]
  /\ sessionDimensions =
       [a \in Agents |-> IF a = "a1"
                           THEN ("s1" :> [cols |-> SpawnDefaultCols, rows |-> SpawnDefaultRows])
                           ELSE EmptyMap]
  /\ killedSessions = [a \in Agents |-> {}]
  /\ ptys = (1 :> [agent |-> "a1", sid |-> "s1", cols |-> SpawnDefaultCols,
                   rows |-> SpawnDefaultRows, st |-> "running"])
  /\ respawnTimers = {}
  /\ nextPid = 1
  /\ toHub = [a \in Agents |-> <<>>]
  /\ toAgent = [a \in Agents |-> <<>>]
  /\ expectName = ("s1" :> "tty")
  /\ closedIds = {}
  /\ usedIds = {"s1"}
  /\ FreshObs({})

SpecAgent == InitAgent /\ [][NextAgent]_vars

\* The agent's reconnect loop runs until the link is up again and a frame at
\* the head of a queue is handled.
SpecAgentLive ==
  /\ SpecAgent
  /\ WF_vars(AgentConnect("a1"))
  /\ WF_vars(RegisterWorker("a1"))
  /\ WF_vars(KillSession("a1"))
  /\ WF_vars(AgentExecute("a1"))
  /\ WF_vars(Output("a1"))
  /\ WF_vars(SessionShellExited("a1"))

\* C2: once an agent has handled kill-session for an id, no PTY of that id runs
\* on it.
NoPtyAfterKill ==
  \A a \in Agents, id \in Sids : id \in killProcessed[a] => Running(a, id) = {}

\* C3: after close-session the id is out of the hub's store and the agent that
\* owns the session comes to have no PTY for it, whether or not its link was
\* up when the hub handled the close.
CloseReachesAgent ==
  \A id \in Sids :
    (id \in closedIds) ~> (~Has(sharedSessions, id) /\ Running("a1", id) = {})

\* ---------------------------------------------------------------- metadata
\* The metadata plane: client c1 creates session s1 (for either worker, any
\* number of times), renames, joins, resizes and closes it; agent a1 is
\* registered and handles what the hub sends it.
NextMeta ==
  \/ \E n \in WorkerNames, d \in DisplayNames :
       CreateSession("c1", "s1", n, normalizeWorkerKey(n), d)
  \/ \E d \in DisplayNames : RenameSession("c1", "s1", d)
  \/ \E z \in ViewSizes : JoinSession("c1", "s1", z)
  \/ \E z \in ViewSizes : Resize("c1", "a1", "s1", z)
  \/ CloseSession("c1", "s1")
  \/ AgentResize("a1")
  \/ KillSession("a1")

InitMeta ==
  /\ config = StdConfig
  /\ IdlePlanes
  /\ sharedSessions = EmptyMap
  /\ db = EmptyMap
  /\ sessionSaveTimer = <<>>
  /\ sessionClients = EmptyMap
  /\ sessionPtySizes = EmptyMap
  /\ workers = <<[id |-> "a1", socketId |-> "a1", name |-> WORKER_NAME["a1"],
                  lastSeen |-> 0, status |-> "online"]>>
  /\ role = [s \in Socks |-> IF s = "a1" THEN "worker" ELSE IF s = "c1" THEN "client"
                             ELSE "none"]
  /\ connected = [a \in Agents |-> a = "a1"]
  /\ sessionShells = [a \in Agents |-> EmptyMap]
  /\ sessionDimensions = [a \in Agents |-> EmptyMap]
  /\ killedSessions = [a \in Agents |-> {}]
  /\ ptys = EmptyMap
  /\ respawnTimers = {}
  /\ nextPid = 0
  /\ toHub = [a \in Agents |-> <<>>]
  /\ toAgent = [a \in Agents |-> <<>>]
  /\ expectName = EmptyMap
  /\ closedIds = {}
  /\ usedIds = {}
  /\ FreshObs({})

SpecMeta == InitMeta /\ [][NextMeta]_vars

\* C11: no step changes the workerKey of a session that exists before and
\* after it.
WorkerKeyNeverChanges ==
  [][\A id \in DOMAIN sharedSessions \cap DOMAIN sharedSessions' :
       sharedSessions'[id].workerKey = sharedSessions[id].workerKey]_vars

\* -------------------------------------------------------------------- roles
\* The role plane: client c1 and agent a1 are connected, a1 is registered and
\* session s1 exists.  Each of the two sockets emits every frame type, those
\* of its own protocol and those of the other.
RoleSocks == {"c1", "a1"}
RoleViewport == [cols |-> 100, rows |-> 40]
NextRole ==
  \/ \E s \in RoleSocks : CreateSession(s, "s1", "Alpha", "alpha", "dev")
  \/ \E s \in RoleSocks : CloseSession(s, "s1")
  \/ \E s \in RoleSocks : RenameSession(s, "s1", "dev")
  \/ \E s \in RoleSocks : JoinSession(s, "s1", RoleViewport)
  \/ \E s \in RoleSocks : LeaveSession(s, "s1")
  \/ \E s \in RoleSocks : GetSessionList(s)
  \/ \E s \in RoleSocks : GetSessionOutput(s, "s1")
  \/ \E s \in RoleSocks : ClientRegister(s)
  \/ \E s \in RoleSocks : Execute(s, "a1", "s1", 2)
  \/ \E s \in RoleSocks : Resize(s, "a1", "s1", RoleViewport)
  \/ SendRegister("c1", "beta")
  \/ SendHeartbeat("c1")
  \/ SendOutput("c1", "s1")
  \/ AgentHeartbeat("a1")
  \/ Heartbeat("a1")
  \/ AgentExecute("a1")
  \/ AgentResize("a1")
  \/ KillSession("a1")

InitRole ==
  /\ config = StdConfig
  /\ IdlePlanes
  /\ sharedSessions = ("s1" :> SharedSession("s1", "Alpha", "alpha", "tty", <<>>))
  /\ db = sharedSessions
  /\ sessionSaveTimer = <<>>
  /\ sessionClients = EmptyMap
  /\ sessionPtySizes = EmptyMap
  /\ workers = <<[id |-> "a1", socketId |-> "a1", name |-> WORKER_NAME["a1"],
                  lastSeen |-> 0, status |-> "online"]>>
  /\ role = [s \in Socks |-> IF s = "a1" THEN "worker" ELSE IF s = "c1" THEN "client"
                             ELSE "none"]
  /\ connected = [a \in Agents |-> a = "a1"]
  /\ sessionShells = [a \in Agents |-> IF a = "a1" THEN ("s1" :> 1) ELSE EmptyMap]
  /\ sessionDimensions =
       [a \in Agents |-> IF a = "a1"
                           THEN ("s1" :> [cols |-> SpawnDefaultCols, rows |-> SpawnDefaultRows])
                           ELSE EmptyMap]
  /\ killedSessions = [a \in Agents |-> {}]
  /\ ptys = (1 :> [agent |-> "a1", sid |-> "s1", cols |-> SpawnDefaultCols,
                   rows |-> SpawnDefaultRows, st |-> "running"])
  /\ respawnTimers = {}
  /\ nextPid = 1
  /\ toHub = [a \in Agents |-> <<>>]
  /\ toAgent = [a \in Agents |-> <<>>]
  /\ expectName = ("s1" :> "tty")
  /\ closedIds = {}
  /\ usedIds = {"s1"}
  /\ FreshObs({"frames"})

SpecRole == InitRole /\ [][NextRole]_vars

ClientOnly ==
  {"create-session", "close-session", "rename-session", "join-session", "leave-session",
   "get-session-list", "get-session-output", "execute", "resize"}
AgentOnly == {"output", "heartbeat", "register"}
\* the last step handled a frame whose type is not of the sender's role
RoleMismatch ==
  \/ ev.type \in ClientOnly /\ role[ev.sock] = "worker"
  \/ ev.type \in AgentOnly /\ role[ev.sock] = "client"

\* C12: a step that handles a frame whose type does not match the sender's
\* role changes neither the sessions (map and table), nor the attachments, the
\* PTY-size records or the registry, and sends nothing to any peer.
RoleMismatchIsDropped ==
  [][RoleMismatch' =>
       /\ UNCHANGED <<sharedSessions, db, sessionClients, sessionPtySizes, workers>>
       /\ UNCHANGED <<toAgent, sessionSaveTimer>>
       /\ sent' = {}]_vars

AgentSentCloseSession ==
  /\ ev.type = "close-session" /\ role[ev.sock] = "worker"
  /\ Has(sharedSessions, ev.sid)
  /\ Has(sessionClients, ev.sid) /\ Has(sessionClients[ev.sid], "c1")

\* ---------------------------------------------------------------- handshake
\* The handshake plane: the hub and the two agents are started with any of the
\* environments below; the agents connect, register, beat and lose their link,
\* and client c1 emits register frames of its own.
HubTokenEnvs == {NoToken, <<" ">>, Secret, <<" ", "k", "3", "y">>}
AuthConfigs ==
  {Config(shared, insecure, StdConfig.WORKER_NAME, tokens) :
     shared \in HubTokenEnvs, insecure \in BOOLEAN, tokens \in [Agents -> Tokens]}

NextAuth ==
  \/ \E a \in Agents : AgentConnect(a)
  \/ \E a \in Agents : RegisterWorker(a)
  \/ \E a \in Agents : AgentHeartbeat(a)
  \/ \E a \in Agents : Heartbeat(a)
  \/ \E a \in Agents : WorkerDisconnect(a)
  \/ \E n \in WorkerNames : SendRegister("c1", n)
  \/ HealthSweep

InitAuth ==
  /\ config \in AuthConfigs
  /\ IdlePlanes
  /\ sharedSessions = EmptyMap
  /\ db = EmptyMap
  /\ sessionSaveTimer = <<>>
  /\ sessionClients = EmptyMap
  /\ sessionPtySizes = EmptyMap
  /\ workers = <<>>
  /\ role = [s \in Socks |-> IF s = "c1" THEN "client" ELSE "none"]
  /\ connected = [a \in Agents |-> FALSE]
  /\ sessionShells = [a \in Agents |-> EmptyMap]
  /\ sessionDimensions = [a \in Agents |-> EmptyMap]
  /\ killedSessions = [a \in Agents |-> {}]
  /\ ptys = EmptyMap
  /\ respawnTimers = {}
  /\ nextPid = 0
  /\ toHub = [a \in Agents |-> <<>>]
  /\ toAgent = [a \in Agents |-> <<>>]
  /\ expectName = EmptyMap
  /\ closedIds = {}
  /\ usedIds = {}
  /\ FreshObs({"frames"})

SpecAuth == InitAuth /\ [][NextAuth]_vars

\* the credential a presents is the configured shared credential, or none is
\* configured and the insecure policy is on
Authorized(a) ==
  \/ workerSharedToken # NoToken /\ WORKER_TOKEN[a] = workerSharedToken
  \/ workerSharedToken = NoToken /\ allowInsecureWorkers

\* C13: whoever holds the worker role presented the configured shared credential,
\* or connected while no shared credential is configured and the insecure
\* policy is on; every registry entry belongs to such a connection.
WorkerRoleOnlyIfAuthorized ==
  /\ \A s \in Socks : role[s] = "worker" => s \in Agents /\ Authorized(s)
  /\ \A i \in 1..Len(workers) :
       workers[i].socketId \in Agents /\ Authorized(workers[i].socketId)

\* one agent is registered while the handshake of the other, which presents a
\* wrong non-empty credential, has just been refused
WrongTokenRefused ==
  /\ ev.type = "connect" /\ ~ev.ok /\ ev.sock \in Agents
  /\ WORKER_TOKEN[ev.sock] # NoToken
  /\ role[ev.sock] = "none"
  /\ \E i \in 1..Len(workers) : workers[i].socketId # ev.sock

\* ----------------------------------------------------------------- registry
\* The registry plane: two agent hosts are started with names that differ in
\* case only; they connect, register, beat, fall silent and lose their link
\* while client c1 creates and closes session s1 of that worker key.
TwinConfig ==
  Config(Secret, FALSE, [a \in Agents |-> IF a = "a1" THEN "Alpha" ELSE "alpha"],
         [a \in Agents |-> Secret])

NextReg ==
  \/ \E a \in Agents : AgentConnect(a)
  \/ \E a \in Agents : RegisterWorker(a)
  \/ \E a \in Agents : AgentHeartbeat(a)
  \/ \E a \in Agents : Heartbeat(a)
  \/ \E a \in Agents : WorkerDisconnect(a)
  \/ \E a \in Agents : KillSession(a)
  \/ HealthSweep
  \/ CreateSession("c1", "s1", "Alpha", "alpha", "tty")
  \/ CloseSession("c1", "s1")

InitReg ==
  /\ config = TwinConfig
  /\ IdlePlanes
  /\ sharedSessions = EmptyMap
  /\ db = EmptyMap
  /\ sessionSaveTimer = <<>>
  /\ sessionClients = EmptyMap
  /\ sessionPtySizes = EmptyMap
  /\ workers = <<>>
  /\ role = [s \in Socks |-> IF s = "c1" THEN "client" ELSE "none"]
  /\ connected = [a \in Agents |-> FALSE]
  /\ sessionShells = [a \in Agents |-> EmptyMap]
  /\ sessionDimensions = [a \in Agents |-> EmptyMap]
  /\ killedSessions = [a \in Agents |-> {}]
  /\ ptys = EmptyMap
  /\ respawnTimers = {}
  /\ nextPid = 0
  /\ toHub = [a \in Agents |-> <<>>]
  /\ toAgent = [a \in Agents |-> <<>>]
  /\ expectName = EmptyMap
  /\ closedIds = {}
  /\ usedIds = {}
  /\ FreshObs({"frames"})

SpecReg == InitReg /\ [][NextReg]_vars

\* C14: the registry never holds two entries whose names are equal up to case,
\* and a register under a name the registry already holds closes the connection
\* that held it.
OneEntryPerName ==
  /\ \A i, j \in 1..Len(workers) :
       normalizeWorkerKey(workers[i].name) = normalizeWorkerKey(workers[j].name) => i = j
  /\ (ev.type = "register" /\ ev.ok) =>
       \A a \in Agents \ {ev.sock} :
         normalizeWorkerKey(WORKER_NAME[a]) = normalizeWorkerKey(WORKER_NAME[ev.sock])
           => ~connected[a] \/ ~WorkersHas(workers, a)

\* the registered agents of worker key k that the sweep holds online
OnlineOf(k) ==
  {workers[i].id : i \in {j \in 1..Len(workers) :
     normalizeWorkerKey(workers[j].name) = k /\ workers[j].status = "online"}}

\* C15: when a close-session is routed by the worker key of its session and at
\* least one registered agent of that key is online, the kill-session goes to
\* an online one.
RoutedToOnlineAgent ==
  (ev.type = "close-session" /\ ev.ok /\ OnlineOf(ev.wid) # {})
    => \E f \in sent : f.type = "kill-session" /\ f.to \in OnlineOf(ev.wid)

\* C16: every step in which a registered agent goes from online to offline or
\* from offline to online sends a worker-list frame to every connected client.
StatusChangeIsBroadcast ==
  [][(\E i \in 1..Len(workers), j \in 1..Len(workers') :
        workers[i].id = workers'[j].id /\ workers[i].status # workers'[j].status)
       => \A s \in Socks :
            role'[s] = "client" => \E f \in sent' : f.to = s /\ f.type = "worker-list"]_vars

\* -------------------------------------------------------------------- link
\* The link plane: agent a1 runs PTY 1 for session s1 and its link to the hub
\* has just dropped.  It reconnects and registers again, the link drops again,
\* and client c1 sends execute for s1 whenever it likes.
NextLink ==
  \/ WorkerDisconnect("a1")
  \/ AgentConnect("a1")
  \/ RegisterWorker("a1")
  \/ AgentHeartbeat("a1")
  \/ Heartbeat("a1")
  \/ HealthSweep
  \/ Execute("c1", "a1", "s1", 2)
  \/ AgentExecute("a1")
  \/ \E p \in 1..MaxSpawns : PtyData(p)
  \/ Output("a1")

InitLink ==
  /\ config = StdConfig
  /\ IdlePlanes
  /\ sharedSessions = ("s1" :> SharedSession("s1", "Alpha", "alpha", "tty", <<>>))
  /\ db = sharedSessions
  /\ sessionSaveTimer = <<>>
  /\ sessionClients = EmptyMap
  /\ sessionPtySizes = EmptyMap
  /\ workers = <<>>
  /\ role = [s \in Socks |-> IF s = "c1" THEN "client" ELSE "none"]
  /\ connected = [a \in Agents |-> FALSE]
  /\ sessionShells = [a \in Agents |-> IF a = "a1" THEN ("s1" :> 1) ELSE EmptyMap]
  /\ sessionDimensions =
       [a \in Agents |-> IF a = "a1"
                           THEN ("s1" :> [cols |-> SpawnDefaultCols, rows |-> SpawnDefaultRows])
                           ELSE EmptyMap]
  /\ killedSessions = [a \in Agents |-> {}]
  /\ ptys = (1 :> [agent |-> "a1", sid |-> "s1", cols |-> SpawnDefaultCols,
                   rows |-> SpawnDefaultRows, st |-> "running"])
  /\ respawnTimers = {}
  /\ nextPid = 1
  /\ toHub = [a \in Agents |-> <<>>]
  /\ toAgent = [a \in Agents |-> <<>>]
  /\ expectName = ("s1" :> "tty")
  /\ closedIds = {}
  /\ usedIds = {"s1"}
  /\ FreshObs({"frames", "agent"})

SpecLink == InitLink /\ [][NextLink]_vars

\* C17: through link losses, reconnections and registrations the agent's map
\* still holds PTY 1 for s1, no PTY is spawned, and every execute for s1 the
\* agent handles is written to PTY 1.
SamePtyAfterOutage ==
  /\ sessionShells["a1"] = ("s1" :> 1)
  /\ nextPid = 1 /\ DOMAIN ptys = {1} /\ ptys[1].st = "running"
  /\ ev.type = "agent-execute" => ev.sid = "s1" /\ ev.k = 1

\* the agent, registered again after the outage, has just written an execute
\* for s1 to PTY 1
ExecuteAfterOutage ==
  /\ ev.type = "agent-execute" /\ ev.sid = "s1" /\ ev.k = 1
  /\ WorkersHas(workers, "a1") /\ connected["a1"]

\* ------------------------------------------------------------------ respawn
\* The respawn plane: agent a1 runs PTY 1 for session s1, which nobody closes.
\* The shell exits while spawns and output frames are left to model, the
\* respawn timer fires, the link drops and comes back.
NextRespawn ==
  \/ \E p \in 1..MaxSpawns, x \in ExitCodes :
       nextPid < MaxSpawns /\ nOut < MaxOutputs /\ ShellExit(p, x)
  \/ \E t \in respawnTimers : Respawn(t)
  \/ Output("a1")
  \/ WorkerDisconnect("a1")
  \/ AgentConnect("a1")
  \/ RegisterWorker("a1")
  \/ AgentHeartbeat("a1")
  \/ Heartbeat("a1")

SpecRespawn == InitRole /\ [][NextRespawn]_vars

\* The 500 ms timer fires, the agent's reconnect loop runs until the link is up
\* again and a frame at the head of a queue is handled.
SpecRespawnLive ==
  /\ SpecRespawn
  /\ WF_vars(\E t \in respawnTimers : Respawn(t))
  /\ WF_vars(AgentConnect("a1"))
  /\ WF_vars(RegisterWorker("a1"))
  /\ WF_vars(Output("a1"))
  /\ WF_vars(Heartbeat("a1"))

\* C18: whenever no PTY runs for s1 on a1, whose shell was never killed, a PTY
\* for s1 eventually runs again on a1.
ExitedIsRespawned ==
  (Running("a1", "s1") = {}) ~> (Running("a1", "s1") # {})

\* the viewers of session id in attachment map sc
ViewersOf(sc, id) == IF Has(sc, id) THEN DOMAIN sc[id] ELSE {}

\* C19: a step that removes a viewer of a session and leaves it other viewers
\* records the size reconciled over the remaining viewers whenever that size
\* differs from the one last applied.
DetachRecomputes ==
  [][\A id \in Sids :
       (/\ ViewersOf(sessionClients, id) \ ViewersOf(sessionClients', id) # {}
        /\ ViewersOf(sessionClients', id) # {}
        /\ Has(sessionPtySizes, id)
        /\ getMaxSessionSize(sessionClients', id) # sessionPtySizes[id])
       => /\ Has(sessionPtySizes', id)
          /\ sessionPtySizes'[id] = getMaxSessionSize(sessionClients', id)]_vars

\* C20: a join-session of a client for an existing session has recorded the
\* attachment and is answered to that client with a session-output frame
\* carrying the output tail of the session.
JoinIsAnswered ==
  (/\ ev.type = "join-session" /\ ev.sock \in Clients
   /\ role[ev.sock] = "client" /\ Has(sharedSessions, ev.sid))
  => /\ Attached(ev.sock, ev.sid)
     /\ \E f \in sent : f.to = ev.sock /\ f.type = "session-output" /\ f.sid = ev.sid

\* -------------------------------------------------------------------- spawn
\* The spawn plane: agent a1 is registered and runs no PTY yet.  Client c1
\* creates a session, joins it once with a viewport, and then sends execute
\* for it; it sends no resize.
NextSpawn ==
  \/ \E id \in Sids :
       ~Has(sharedSessions, id) /\ CreateSession("c1", id, "Alpha", "alpha", "tty")
  \/ \E id \in Sids, z \in ViewSizes :
       Has(sharedSessions, id) /\ ~Has(sessionClients, id) /\ JoinSession("c1", id, z)
  \/ \E id \in Sids : Has(sessionClients, id) /\ Execute("c1", "a1", id, 2)
  \/ AgentExecute("a1")
  \/ AgentHeartbeat("a1")
  \/ Heartbeat("a1")

InitSpawn ==
  /\ config = StdConfig
  /\ IdlePlanes
  /\ sharedSessions = EmptyMap
  /\ db = EmptyMap
  /\ sessionSaveTimer = <<>>
  /\ sessionClients = EmptyMap
  /\ sessionPtySizes = EmptyMap
  /\ workers = <<[id |-> "a1", socketId |-> "a1", name |-> WORKER_NAME["a1"],
                  lastSeen |-> 0, status |-> "online"]>>
  /\ role = [s \in Socks |-> IF s = "a1" THEN "worker" ELSE IF s = "c1" THEN "client"
                             ELSE "none"]
  /\ connected = [a \in Agents |-> a = "a1"]
  /\ sessionShells = [a \in Agents |-> EmptyMap]
  /\ sessionDimensions = [a \in Agents |-> EmptyMap]
  /\ killedSessions = [a \in Agents |-> {}]
  /\ ptys = EmptyMap
  /\ respawnTimers = {}
  /\ nextPid = 0
  /\ toHub = [a \in Agents |-> <<>>]
  /\ toAgent = [a \in Agents |-> <<>>]
  /\ expectName = EmptyMap
  /\ closedIds = {}
  /\ usedIds = {}
  /\ FreshObs({})

SpecSpawn == InitSpawn /\ [][NextSpawn]_vars

\* C21: the PTY the agent spawned for a session that client c1 created, joined
\* with a viewport and then sent execute for has the cols and rows of that
\* viewport.
SpawnedWithJoinedViewport ==
  \A id \in Sids : \A p \in Running("a1", id) :
    Attached("c1", id) =>
      /\ ptys[p].cols = sessionClients[id]["c1"].cols
      /\ ptys[p].rows = sessionClients[id]["c1"].rows

\* ---------------------------------------------------------------- per client
\* The per-client plane: agent a1 is registered with the hub of
\* nexus/src/index.ts and keeps one shell per client; clients c1 and c2 are
\* connected and send commands; c2 comes and goes.
PerClientSizes == {[cols |-> 100, rows |-> 30], [cols |-> 80, rows |-> 24]}
NextPerClient ==
  \/ \E c \in Clients : NexusExecute(c, "a1", 2)
  \/ NexusOutput("a1")
  \/ NexusClientDisconnect("c2")
  \/ ClientConnect("c2")
  \/ ClientShellExecute("a1")
  \/ ClientShellDisconnect("a1")
  \/ \E p \in 1..MaxSpawns : ClientShellData(p)
  \/ \E p \in 1..MaxSpawns : ClientShellExit(p)

InitPerClient ==
  /\ config = StdConfig
  /\ IdlePlanes
  /\ sharedSessions = EmptyMap
  /\ db = EmptyMap
  /\ sessionSaveTimer = <<>>
  /\ sessionClients = EmptyMap
  /\ sessionPtySizes = EmptyMap
  /\ workers = <<[id |-> "a1", socketId |-> "a1", name |-> WORKER_NAME["a1"],
                  lastSeen |-> 0, status |-> "online"]>>
  /\ role = [s \in Socks |-> IF s = "a1" THEN "worker" ELSE IF s \in Clients THEN "client"
                             ELSE "none"]
  /\ connected = [a \in Agents |-> a = "a1"]
  /\ sessionShells = [a \in Agents |-> EmptyMap]
  /\ sessionDimensions = [a \in Agents |-> EmptyMap]
  /\ killedSessions = [a \in Agents |-> {}]
  /\ ptys = EmptyMap
  /\ respawnTimers = {}
  /\ nextPid = 0
  /\ toHub = [a \in Agents |-> <<>>]
  /\ toAgent = [a \in Agents |-> <<>>]
  /\ expectName = EmptyMap
  /\ closedIds = {}
  /\ usedIds = {}
  /\ FreshObs({"log"})

SpecPerClient == InitPerClient /\ [][NextPerClient]_vars

NextResize ==
  \/ \E c \in Clients, z \in PerClientSizes : Resize(c, "a1", "s1", z)
  \/ \E c \in Clients : Execute(c, "a1", "s1", 2)
  \/ AgentResize("a1")
  \/ AgentExecute("a1")

InitResize ==
  /\ config = StdConfig
  /\ IdlePlanes
  /\ sharedSessions = ("s1" :> SharedSession("s1", "Alpha", "alpha", "tty", <<>>))
  /\ db = sharedSessions
  /\ sessionSaveTimer = <<>>
  /\ sessionClients =
       ("s1" :> [c \in Clients |-> [cols |-> DefaultCols, rows |-> DefaultRows]])
  /\ sessionPtySizes = EmptyMap
  /\ workers = <<[id |-> "a1", socketId |-> "a1", name |-> WORKER_NAME["a1"],
                  lastSeen |-> 0, status |-> "online"]>>
  /\ role = [s \in Socks |-> IF s = "a1" THEN "worker" ELSE IF s \in Clients THEN "client"
                             ELSE "none"]
  /\ connected = [a \in Agents |-> a = "a1"]
  /\ sessionShells = [a \in Agents |-> IF a = "a1" THEN ("s1" :> 1) ELSE EmptyMap]
  /\ sessionDimensions =
       [a \in Agents |-> IF a = "a1"
                           THEN ("s1" :> [cols |-> SpawnDefaultCols, rows |-> SpawnDefaultRows])
                           ELSE EmptyMap]
  /\ killedSessions = [a \in Agents |-> {}]
  /\ ptys = (1 :> [agent |-> "a1", sid |-> "s1", cols |-> SpawnDefaultCols,
                   rows |-> SpawnDefaultRows, st |-> "running"])
  /\ respawnTimers = {}
  /\ nextPid = 1
  /\ toHub = [a \in Agents |-> <<>>]
  /\ toAgent = [a \in Agents |-> <<>>]
  /\ expectName = ("s1" :> "tty")
  /\ closedIds = {}
  /\ usedIds = {"s1"}
  /\ FreshObs({"frames"})

SpecResize == InitResize /\ [][NextResize]_vars

\* the size z is that of the PTY of session s1, or is on its way to it in a
\* resize message that is the last one queued for the agent
TakesEffect(z, shells, queue) ==
  \/ /\ queue = <<>>
     /\ \A p \in DOMAIN shells : shells[p].sid = "s1" /\ shells[p].st = "running" =>
          shells[p].cols = z.cols /\ shells[p].rows = z.rows
  \/ \E i \in 1..Len(queue) :
       /\ queue[i].type = "resize" /\ queue[i].sid = "s1"
       /\ queue[i].cols = z.cols /\ queue[i].rows = z.rows
       /\ \A j \in (i + 1)..Len(queue) : queue[j].type # "resize"

\* C23: a resize a client sends for the session its commands go to takes effect
\* on the PTY of that session, whatever the other client's viewport is: once the
\* hub has handled the resize, the PTY has that size or the last resize message
\* queued for the agent carries it.
ResizeReachesClientPty ==
  [][(ev'.type = "resize" /\ ev'.ok /\ toAgent["a1"] = <<>>)
       => TakesEffect(sessionClients'["s1"][ev'.sock], ptys', toAgent'["a1"])]_vars

\* ------------------------------------------------------------------ execute
\* The execute plane: agent a1 is registered and connected and runs no PTY yet.
\* Client c1 sends execute to a1, with the id of session s1 or, as the hub of
\* nexus/src/index.ts forwards it, with none; the agent handles what it is
\* sent, its PTYs print and the hub relays.
NextExec ==
  \/ Execute("c1", "a1", "s1", 2)
  \/ NexusExecute("c1", "a1", 2)
  \/ AgentExecute("a1")
  \/ \E p \in 1..MaxSpawns : PtyData(p)
  \/ Output("a1")

InitExec ==
  /\ config = StdConfig
  /\ IdlePlanes
  /\ sharedSessions = ("s1" :> SharedSession("s1", "Alpha", "alpha", "tty", <<>>))
  /\ db = sharedSessions
  /\ sessionSaveTimer = <<>>
  /\ sessionClients = EmptyMap
  /\ sessionPtySizes = EmptyMap
  /\ workers = <<[id |-> "a1", socketId |-> "a1", name |-> WORKER_NAME["a1"],
                  lastSeen |-> 0, status |-> "online"]>>
  /\ role = [s \in Socks |-> IF s = "a1" THEN "worker" ELSE IF s = "c1" THEN "client"
                             ELSE "none"]
  /\ connected = [a \in Agents |-> a = "a1"]
  /\ sessionShells = [a \in Agents |-> EmptyMap]
  /\ sessionDimensions = [a \in Agents |-> EmptyMap]
  /\ killedSessions = [a \in Agents |-> {}]
  /\ ptys = EmptyMap
  /\ respawnTimers = {}
  /\ nextPid = 0
  /\ toHub = [a \in Agents |-> <<>>]
  /\ toAgent = [a \in Agents |-> <<>>]
  /\ expectName = ("s1" :> "tty")
  /\ closedIds = {}
  /\ usedIds = {"s1"}
  /\ FreshObs({"frames", "agent"})

SpecExec == InitExec /\ [][NextExec]_vars

\* the agent handles every message it is sent, a PTY prints while output frames
\* are left to model, and the hub handles every frame it is sent
SpecExecLive ==
  /\ SpecExec
  /\ WF_vars(AgentExecute("a1"))
  /\ WF_vars(\E p \in 1..MaxSpawns : PtyData(p))
  /\ WF_vars(Output("a1"))

\* C24: an execute of client c1 that carries no session id and that the hub
\* forwards to the registered agent a1 leads to the agent writing a command to
\* one of its PTYs.
ExecuteWithoutSessionIsWritten ==
  (ev.type = "execute" /\ ev.ok /\ ev.sock = "c1" /\ ev.sid = NoSid
     /\ WorkersHas(workers, ev.wid))
    ~> (ev.type = "agent-execute" /\ ev.k # 0)

\* --------------------------------------------------------------- worker list
\* The list plane: the agents connect, register, beat, fall silent and lose
\* their link; the clients connect, send register{type:'client'} and leave.
NextList ==
  \/ \E a \in Agents : AgentConnect(a)
  \/ \E a \in Agents : RegisterWorker(a)
  \/ \E a \in Agents : AgentHeartbeat(a)
  \/ \E a \in Agents : Heartbeat(a)
  \/ \E a \in Agents : WorkerDisconnect(a)
  \/ HealthSweep
  \/ \E c \in Clients : ClientConnect(c)
  \/ \E c \in Clients : ClientDisconnect(c)
  \/ \E c \in Clients : ClientRegister(c)

SpecList == InitReg /\ [][NextList]_vars

\* the hub has handled the register of agent a on the link that a still holds
RegisteredUp(a) ==
  /\ connected[a] /\ role[a] = "worker"
  /\ \A i \in 1..Len(toHub[a]) : toHub[a][i].type # "register"

\* C25: a client that sends register{type:'client'} is sent a worker-list that
\* holds every agent whose register the hub has handled and whose link is still
\* up.
ClientIsSentRegisteredWorkers ==
  (ev.type = "register-client" /\ role[ev.sock] = "client") =>
    \A a \in Agents :
      RegisteredUp(a) =>
        \E f \in sent :
          /\ f.to = ev.sock /\ f.type = "worker-list"
          /\ \E i \in 1..Len(f.list) : f.list[i].id = a

\* client c2 registers while agent a1, registered and linked, is held offline
\* by the sweep, and the list it is sent holds a1
ListHoldsSilentWorker ==
  /\ ev.type = "register-client" /\ ev.sock = "c2" /\ role["c2"] = "client"
  /\ RegisteredUp("a1")
  /\ \E f \in sent :
       /\ f.to = "c2" /\ f.type = "worker-list"
       /\ \E i \in 1..Len(f.list) : f.list[i].id = "a1" /\ f.list[i].status = "offline"

\* ------------------------------------------------------------------- admin
\* The admin plane: the hub of part_005 has started with some NEXUS_SETUP_TOKEN
\* and ADMIN_PASSWORD over an empty auth table; one caller at a time sends
\* setup, login and password requests from loopback and from elsewhere.
AdminConfigs ==
  {[StdConfig EXCEPT !.NEXUS_SETUP_TOKEN = t, !.ADMIN_PASSWORD = p] :
     t \in {NoToken, Secret}, p \in {NoPassword, [w |-> "a", len |-> 5],
                                     [w |-> "c", len |-> 8]}}
\* no socket is connected, no session exists
QuietHub(p) ==
  /\ sharedSessions = EmptyMap
  /\ db = EmptyMap
  /\ sessionSaveTimer = <<>>
  /\ sessionClients = EmptyMap
  /\ sessionPtySizes = EmptyMap
  /\ workers = <<>>
  /\ role = [s \in Socks |-> "none"]
  /\ connected = [a \in Agents |-> FALSE]
  /\ sessionShells = [a \in Agents |-> EmptyMap]
  /\ sessionDimensions = [a \in Agents |-> EmptyMap]
  /\ killedSessions = [a \in Agents |-> {}]
  /\ ptys = EmptyMap
  /\ respawnTimers = {}
  /\ nextPid = 0
  /\ toHub = [a \in Agents |-> <<>>]
  /\ toAgent = [a \in Agents |-> <<>>]
  /\ expectName = EmptyMap
  /\ closedIds = {}
  /\ usedIds = {}
  /\ FreshObs(p)

NextAdmin ==
  \/ \E ip \in Ips, h \in SetupTickets, b \in {NoToken, Secret},
        pw \in Passwords \cup {NoPassword}, salt \in Salts : Setup(1, ip, h, b, pw, salt)
  \/ \E pw \in Passwords \cup {NoPassword} : Login(1, pw)
  \/ \E bearer \in Bearers, cur \in Passwords \cup {NoPassword},
        pw \in Passwords \cup {NoPassword}, salt \in Salts :
       Password(1, bearer, cur, pw, salt)

InitAdmin ==
  /\ config \in AdminConfigs
  /\ QuietHub({})
  /\ IdleShells
  /\ IdleAcl
  /\ IdleBackoff
  /\ authState = bootstrapInitialPassword(NoAuth, config.ADMIN_PASSWORD, "5a")
  /\ http = [r \in Reqs |-> IdleSlot]
  /\ jwtIssued = {}

SpecAdmin == InitAdmin /\ [][NextAdmin]_vars

\* the request carries the setup ticket the hub was started with
CarriesTicket(q) ==
  /\ setupToken # NoToken
  /\ (IF q.header # NoToken THEN q.header ELSE q.body) = setupToken

\* C26: a setup request with a password of 8 characters or more that the hub
\* handled while it held no credential was accepted if it came from loopback or
\* carried the matching setup ticket, and was answered 403 only if neither.
SetupFromLoopbackOrWithTicket ==
  \A r \in Reqs :
    LET q == http[r]
    IN (q.pc = "done" /\ q.op = "setup" /\ q.state = NoAuth
          /\ q.password.len >= MinPasswordLen)
         => /\ (isLoopbackRequest(q.ip) \/ CarriesTicket(q)) => q.status = 200
            /\ q.status = 403 => ~(isLoopbackRequest(q.ip) \/ CarriesTicket(q))

\* C27: on a hub started over an empty store without ADMIN_PASSWORD, once a
\* setup and a login have been answered with a token, a setup request from a
\* source that is not loopback and that carries no setup ticket is answered 403.
LateRemoteSetupIsForbidden ==
  \A r \in Reqs :
    LET q == http[r]
    IN (/\ config.ADMIN_PASSWORD = NoPassword
        /\ {"setup", "login"} \subseteq jwtIssued
        /\ q.pc = "done" /\ q.op = "setup"
        /\ ~isLoopbackRequest(q.ip) /\ q.header = NoToken /\ q.body = NoToken)
         => q.status = 403

\* -------------------------------------------------------------- setup race
\* The race plane: the hub of nexus/src/index.ts has started over a store
\* without .qodo/auth.json and without ADMIN_PASSWORD; two callers send setup
\* requests, and each handler reads the file, then checks, writes and answers.
NextRace ==
  \/ \E r \in Reqs, ip \in Ips, h \in {NoToken, Secret},
        pw \in {[w |-> "b", len |-> 7], [w |-> "c", len |-> 8], [w |-> "d", len |-> 12]} :
       NexusSetupLoad(r, ip, h, NoToken, pw)
  \/ \E r \in Reqs, salt \in Salts : NexusSetupSave(r, salt)

InitRace ==
  /\ config \in {c \in AdminConfigs : c.ADMIN_PASSWORD = NoPassword}
  /\ QuietHub({})
  /\ IdlePlanes

SpecRace == InitRace /\ [][NextRace]_vars

SetupAccepted(q) == q.op = "setup" /\ q.pc = "done" /\ q.status = 200

\* C28: a stored admin record changes only in a step that ends with a password
\* call answered ok, and of the setup calls being handled at most one is
\* accepted.
RecordChangesOnlyByPasswordCall ==
  [][/\ (authState # NoAuth /\ authState' # authState)
          => \E r \in Reqs : http'[r].op = "password" /\ http'[r].status = 200
     /\ Cardinality({r \in Reqs : SetupAccepted(http'[r])}) <= 1]_vars

\* C29: the stored admin credential is never the hash of a password shorter
\* than 8 characters.
NoWeakStoredCredential ==
  authState # NoAuth => authState.passwordHash[1].len >= MinPasswordLen

\* ------------------------------------------------------------ access control
\* The access plane of the API-key hub: worker w1 belongs to u1 and w2 to u2;
\* client c1 is u1's and c2 is u3's.  The agents connect and leave and send
\* output, the users share the workers with u3 at any level, and the clients
\* send execute and subscribe for any worker id.
NextAcl ==
  \/ \E a \in Agents : ApiWorkerConnect(a, WorkerOfKey(a))
  \/ \E a \in Agents : ApiWorkerDisconnect(a)
  \/ \E a \in Agents : ApiOutput(a)
  \/ \E by \in Users, w \in ApiWorkers, p \in Permissions : Share(by, w, "u3", p)
  \/ \E c \in Clients, w \in ApiWorkers \cup {"w9"} : ApiExecute(c, w)
  \/ \E c \in Clients, w \in ApiWorkers \cup {"w9"} : Subscribe(c, w)

InitAcl ==
  /\ config = StdConfig
  /\ QuietHub({"frames"})
  /\ IdlePlanes

SpecAcl == InitAcl /\ [][NextAcl]_vars

\* the user of client c owns worker w or holds a share on it of a level in ps
OwnsOrShares(c, w, ps) ==
  /\ w \in ApiWorkers
  /\ \/ owner_id[w] = UserOf(c)
     \/ /\ <<w, UserOf(c)>> \in DOMAIN worker_shares
        /\ worker_shares[<<w, UserOf(c)>>] \in ps

\* C30: an execute reaches a worker only for a client whose user owns it or
\* holds a share of level control or admin, and otherwise the client is sent an
\* error frame and nothing else is emitted; a client that subscribes without
\* owning the worker or holding a share is sent an error frame; the room of a
\* worker holds, and its output goes to, only clients whose user owns it or
\* holds a share on it.
AccessFollowsOwnershipAndShares ==
  /\ ev.type = "api-execute" =>
       /\ (\E f \in sent : f.type = "execute")
            => OwnsOrShares(ev.sock, ev.wid, {"control", "admin"})
       /\ ~OwnsOrShares(ev.sock, ev.wid, {"control", "admin"})
            => sent = {ErrorFrame(ev.sock, "Access denied to worker")}
  /\ ev.type = "subscribe" =>
       (~OwnsOrShares(ev.sock, ev.wid, Permissions)
          => sent = {ErrorFrame(ev.sock, "Access denied")})
  /\ \A w \in ApiWorkers : \A c \in rooms[w] : OwnsOrShares(c, w, Permissions)
  /\ ev.type = "api-output" =>
       \A f \in sent : f.type = "output" /\ OwnsOrShares(f.to, ev.wid, Permissions)

\* client c2, whose user holds a view share on the connected worker w1 and who
\* is in its room, sends execute for w1 and is sent the error frame
ViewerIsDeniedExecute ==
  /\ ev.type = "api-execute" /\ ev.sock = "c2" /\ ev.wid = "w1"
  /\ Has(apiWorkers, "w1") /\ "c2" \in rooms["w1"]
  /\ Has(worker_shares, <<"w1", "u3">>) /\ worker_shares[<<"w1", "u3">>] = "view"
  /\ sent = {ErrorFrame("c2", "Access denied to worker")}

\* --------------------------------------------------------------- saving
\* The save plane: agent a1 runs PTY 1 for session s1 and PTY 2 for session
\* s2, both stored; the PTYs print, the hub appends and arms the save timer,
\* and the timer fires.
NextSave ==
  \/ \E p \in 1..MaxSpawns : PtyData(p)
  \/ Output("a1")
  \/ SessionSaveFire

InitSave ==
  /\ config = StdConfig
  /\ IdlePlanes
  /\ sharedSessions = [id \in Sids |-> SharedSession(id, "Alpha", "alpha", "tty", <<>>)]
  /\ db = sharedSessions
  /\ sessionSaveTimer = <<>>
  /\ sessionClients = EmptyMap
  /\ sessionPtySizes = EmptyMap
  /\ workers = <<[id |-> "a1", socketId |-> "a1", name |-> WORKER_NAME["a1"],
                  lastSeen |-> 0, status |-> "online"]>>
  /\ role = [s \in Socks |-> IF s = "a1" THEN "worker" ELSE "none"]
  /\ connected = [a \in Agents |-> a = "a1"]
  /\ sessionShells = [a \in Agents |-> IF a = "a1" THEN ("s1" :> 1) @@ ("s2" :> 2)
                                       ELSE EmptyMap]
  /\ sessionDimensions =
       [a \in Agents |-> IF a = "a1"
                           THEN [id \in Sids |-> [cols |-> SpawnDefaultCols,
                                                  rows |-> SpawnDefaultRows]]
                           ELSE EmptyMap]
  /\ killedSessions = [a \in Agents |-> {}]
  /\ ptys = <<[agent |-> "a1", sid |-> "s1", cols |-> SpawnDefaultCols,
               rows |-> SpawnDefaultRows, st |-> "running"],
              [agent |-> "a1", sid |-> "s2", cols |-> SpawnDefaultCols,
               rows |-> SpawnDefaultRows, st |-> "running"]>>
  /\ respawnTimers = {}
  /\ nextPid = 2
  /\ toHub = [a \in Agents |-> <<>>]
  /\ toAgent = [a \in Agents |-> <<>>]
  /\ expectName = [id \in Sids |-> "tty"]
  /\ closedIds = {}
  /\ usedIds = Sids
  /\ FreshObs({"log"})

SpecSave == InitSave /\ [][NextSave]_vars

\* the hub handles every frame it is sent, and an armed timer that is not
\* cleared fires
SpecSaveLive ==
  /\ SpecSave
  /\ WF_vars(Output("a1"))
  /\ WF_vars(SessionSaveFire)

\* C31: once output has stopped arriving, the sessions table comes to hold, for
\* every session, the tail the hub holds in memory.
TailIsEventuallySaved ==
  <>[](\A id \in DOMAIN sharedSessions :
         Has(db, id) /\ db[id].output = sharedSessions[id].output)

\* the output of session id the hub has handled among the first n payloads, in
\* the order of arrival: the payloads emitted for id that no longer travel
RECURSIVE Arrived(_, _)
Arrived(id, n) ==
  IF n = 0 THEN <<>>
  ELSE Arrived(id, n - 1) \o
       (IF emitted[n].sid = id /\ n \notin InFlight THEN <<[k |-> n, len |-> OutLen]>>
        ELSE <<>>)

\* C32: the tail the hub holds for a session is at most MAX_OUTPUT_CHARS long
\* and is the last MAX_OUTPUT_CHARS characters, or all of them if they are
\* fewer, of the output appended to the session, in the order of arrival.
TailIsLastOfAllOutput ==
  \A id \in DOMAIN sharedSessions :
    /\ Chars(sharedSessions[id].output) <= MAX_OUTPUT_CHARS
    /\ sharedSessions[id].output = SliceLast(Arrived(id, nOut), MAX_OUTPUT_CHARS)

\* session s1 was appended more than the bound and its tail starts inside a
\* payload, while s2 holds one whole payload
TailWasCut ==
  /\ Chars(Arrived("s1", nOut)) > MAX_OUTPUT_CHARS
  /\ Chars(sharedSessions["s1"].output) = MAX_OUTPUT_CHARS
  /\ Head(sharedSessions["s1"].output).len < OutLen
  /\ Chars(sharedSessions["s2"].output) = OutLen

\* C33: a client that sends again the resize the hub has just handled for it,
\* the viewports of the other clients being what they were, changes nothing:
\* the viewports and the PTY size the hub records stay as they are and no
\* resize is sent to the agent, so that the PTY is given no other size.
SameResizeTwiceChangesNothing ==
  [][(/\ ev.type = "resize" /\ ev.ok
      /\ ev' = ev
      /\ sessionClients'[ev.sid][ev.sock] = sessionClients[ev.sid][ev.sock])
       => /\ UNCHANGED <<sessionClients, sessionPtySizes, toAgent, ptys>>
          /\ sent' = {}]_vars

\* the hub has handled a resize to 100x30 of a client whose viewport it records
\* as 100x30 and whose size the PTY has been given, and has sent nothing
ResizeWasRepeated ==
  /\ ev.type = "resize" /\ ev.ok /\ sent = {}
  /\ sessionClients["s1"][ev.sock] = [cols |-> 100, rows |-> 30]
  /\ sessionPtySizes = ("s1" :> [cols |-> 100, rows |-> 30])
  /\ \A c \in Clients \ {ev.sock} :
       sessionClients["s1"][c] = [cols |-> DefaultCols, rows |-> DefaultRows]
  /\ toAgent["a1"] = <<>>
  /\ ptys[1].cols = 100 /\ ptys[1].rows = 30

\* ------------------------------------------------------------------ backoff
\* The connection plane of the agent: its socket connects, fails to connect or
\* is disconnected, and the reconnect timer fires.
NextBackoff ==
  \/ SocketConnect
  \/ \E jitter \in Jitters : SocketConnectError(jitter)
  \/ \E jitter \in Jitters : SocketDisconnect(jitter)
  \/ ReconnectTimerFire

InitBackoff ==
  /\ config = StdConfig
  /\ QuietHub({})
  /\ IdlePlanes

SpecBackoff == InitBackoff /\ [][NextBackoff]_vars

\* C34: the base delay of the agent's reconnects is 1000 ms at start and never
\* above 30000 ms; a step that schedules a reconnect makes the timer wait the
\* base delay plus a jitter below 250 ms and doubles the base delay, up to
\* 30000 ms; a successful connect sets the base delay to 1000 ms.
BackoffDoublesToCapAndResets ==
  /\ retryDelay = 1000
  /\ [](retryDelay >= 1000 /\ retryDelay <= 30000)
  /\ [][/\ (reconnectTimer = <<>> /\ reconnectTimer' # <<>>) =>
             /\ reconnectTimer'[1] - retryDelay \in 0..249
             /\ retryDelay' = IF 2 * retryDelay > 30000 THEN 30000 ELSE 2 * retryDelay
        /\ (socketState # "connected" /\ socketState' = "connected") =>
             retryDelay' = 1000
        /\ retryDelay' # retryDelay =>
             \/ reconnectTimer = <<>> /\ reconnectTimer' # <<>>
             \/ socketState # "connected" /\ socketState' = "connected"]_vars

\* after five failed attempts the base delay has reached the cap, and the
\* sixth reconnect waits 30000 ms and the largest jitter
BackoffAtCap ==
  /\ retryDelay = 30000
  /\ reconnectTimer = <<30249>>
  /\ socketState = "closed"

\* C35: every PTY of the agent that runs is the one the session-to-PTY map
\* holds for its session, so that a session has at most one running PTY and
\* none the map does not reference.
RunningPtyIsTheMapped ==
  \A p \in DOMAIN ptys :
    ptys[p].st = "running" =>
      /\ Has(sessionShells[ptys[p].agent], ptys[p].sid)
      /\ sessionShells[ptys[p].agent][ptys[p].sid] = p

\* the PTY size the hub holds for a session: sessionPtySizes.get(id) || 80x24
RecordedPtySize(id) ==
  IF Has(sessionPtySizes, id) THEN sessionPtySizes[id]
  ELSE [cols |-> DefaultCols, rows |-> DefaultRows]

\* C36: whenever the PTY of a session runs and no resize message travels to
\* its agent, the PTY has the size the hub records for the session, 80x24 when
\* it records none.
RecordedSizeIsPtySize ==
  \A p \in DOMAIN ptys :
    (/\ ptys[p].st = "running"
     /\ \A i \in 1..Len(toAgent[ptys[p].agent]) : toAgent[ptys[p].agent][i].type # "resize")
      => /\ ptys[p].cols = RecordedPtySize(ptys[p].sid).cols
         /\ ptys[p].rows = RecordedPtySize(ptys[p].sid).rows

\* ------------------------------------------------------ respawn dimensions
\* The plane of a resized shell that exits: agent a1 runs the PTY of session
\* s1, the clients resize, the shell exits and the 500 ms timer respawns it.
NextRedim ==
  \/ \E c \in Clients, z \in ViewSizes : Resize(c, "a1", "s1", z)
  \/ AgentResize("a1")
  \/ \E p \in 1..MaxSpawns, x \in ExitCodes : nextPid < MaxSpawns /\ ShellExit(p, x)
  \/ \E t \in respawnTimers : Respawn(t)
  \/ Output("a1")

SpecRedim == InitResize /\ [][NextRedim]_vars

\* C37: the shell the agent respawns for a session has the dimensions its
\* previous PTY had when it exited, those of the last resize applied to it
\* included: the exit that arms the respawn timer hands it the dimensions of
\* the PTY that exited, and the timer spawns the new PTY with them.
RespawnKeepsAppliedSize ==
  [][/\ \A t \in respawnTimers' \ respawnTimers :
          t.cols = ptys[t.pid].cols /\ t.rows = ptys[t.pid].rows
     /\ \A t \in respawnTimers \ respawnTimers' :
          nextPid' # nextPid =>
            ptys'[nextPid'].cols = t.cols /\ ptys'[nextPid'].rows = t.rows]_vars

\* -------------------------------------------------------------- attachments
\* The attachment plane: session s1 of worker Alpha exists and s2 does not;
\* client c1 connects, joins, resizes, closes a session and disconnects, and
\* agent a1 handles what it is sent.
NextAttach ==
  \/ ClientConnect("c1")
  \/ ClientDisconnect("c1")
  \/ \E id \in Sids, z \in PerClientSizes : JoinSession("c1", id, z)
  \/ \E id \in Sids, z \in PerClientSizes : Resize("c1", "a1", id, z)
  \/ \E id \in Sids : CloseSession("c1", id)
  \/ AgentResize("a1")
  \/ KillSession("a1")

SpecAttach == InitView /\ [][NextAttach]_vars

\* C38: every viewer attachment and every PTY-size record the hub holds is
\* for a session that exists, and every attachment is that of a connected
\* client; so none is left for a closed session and none is made for a session
\* id that does not exist.
AttachmentsReferToSessions ==
  /\ \A id \in DOMAIN sessionClients :
       \A c \in DOMAIN sessionClients[id] :
         Has(sharedSessions, id) /\ role[c] = "client"
  /\ \A id \in DOMAIN sessionPtySizes : Has(sharedSessions, id)

\* ------------------------------------------------------- API-key registry
\* The connection plane of the hub with API keys: each agent process connects
\* with the API key of worker w1 or w2, two of them possibly with the same
\* key, disconnects and sends output; the clients subscribe and execute.
NextApiLink ==
  \/ \E a \in Agents, w \in ApiWorkers : ApiWorkerConnect(a, w)
  \/ \E a \in Agents : ApiWorkerDisconnect(a)
  \/ \E a \in Agents : ApiOutput(a)
  \/ \E c \in Clients, w \in ApiWorkers : ApiExecute(c, w)
  \/ \E c \in Clients, w \in ApiWorkers : Subscribe(c, w)

SpecApiLink == InitAcl /\ [][NextApiLink]_vars

\* C39: the registry of the hub with API keys has an entry for a worker
\* exactly when a connection authenticated with that worker's key is open, and
\* the socket the entry names is such an open connection.
RegistryMatchesOpenConnections ==
  \A w \in ApiWorkers :
    /\ Has(apiWorkers, w) <=> (\E a \in Agents : apiSockets[a] = w)
    /\ Has(apiWorkers, w) => apiSockets[apiWorkers[w]] = w

\* ------------------------------------------------------------ output owner
\* The plane of two agents: session s1 belongs to worker Alpha, whose agent a1
\* is registered; agent a2, worker beta, connects and registers.  Client c1
\* sends execute for s1 to either agent, the agents handle what they are sent,
\* their PTYs print and the hub handles the output.
NextOwner ==
  \/ \E w \in Agents : Execute("c1", w, "s1", 2)
  \/ \E a \in Agents : AgentExecute(a)
  \/ \E p \in 1..MaxSpawns : PtyData(p)
  \/ \E a \in Agents : Output(a)
  \/ AgentConnect("a2")
  \/ RegisterWorker("a2")

SpecOwner == InitExec /\ [][NextOwner]_vars

\* C40: the tail of a session changes only in a step in which the hub handles
\* an output message of an agent registered under the worker key of the
\* session.
TailChangesOnlyByOwnersOutput ==
  [][\A id \in DOMAIN sharedSessions :
       (Has(sharedSessions', id) /\ sharedSessions'[id].output # sharedSessions[id].output)
         => /\ ev'.type = "output"
            /\ WorkersHas(workers, ev'.sock)
            /\ normalizeWorkerKey(WorkersGet(workers, ev'.sock).name)
                 = sharedSessions[id].workerKey]_vars

====
